---- MODULE Spec2Model ----
(***************************************************************************)
(* Model of the periodic-actual-vs-budget tool of xero-mcp-server and of   *)
(* the helpers it is built from.  The repository holds several revisions   *)
(* of the tool; each is modelled under its own name:                       *)
(*   "summary"    src/src/tools/business-insight/                          *)
(*                periodic-actual-vs-budget.tool.ts, lines 1-163           *)
(*   "decumulate" the same file, lines 165-383                             *)
(*   "raw"        src/unnamed/part_002, lines 1-137                        *)
(*   "sections"   src/unnamed/part_002, lines 139-355                      *)
(*   "rowlabel"   src/unnamed/part_001                                     *)
(*                                                                         *)
(* JavaScript values are tagged records: a number is Num(n), the number    *)
(* NaN is NaN, null and undefined are Null, a string is Str(s) with s the  *)
(* sequence of its characters.  Numbers are integers: the cell strings of  *)
(* the model hold no decimal point and no exponent.                        *)
(***************************************************************************)
EXTENDS Integers, Sequences, FiniteSets, TLC

VARIABLES
    pc,            \* position of the running handler or function
    rev,           \* revision of the tool that handles the invocation
    input,         \* argument(s) of the function under analysis
    output,        \* its result
    args,          \* arguments of the tool invocation
    actualResp,    \* response of listXeroProfitAndLoss
    budgetResp,    \* response of listXeroBudgetSummary
    reply          \* what the tool handler returns

vars == <<pc, rev, input, output, args, actualResp, budgetResp, reply>>

(***************************************************************************)
(* Bounds of the model.                                                    *)
(***************************************************************************)
MaxLen == 3        \* longest series handed to the de-cumulation
MaxVal == 2        \* largest number in a series
MaxRows == 2       \* most rows in a section handed to the extraction
MaxCells == 3      \* most cells in such a row
MaxTitles == 2     \* most section titles per report in the resolution
MaxPairs == 2      \* most (label, value) rows per side in the alignment

(***************************************************************************)
(* JavaScript values.                                                      *)
(***************************************************************************)
Num(n) == [t |-> "num", n |-> n]
Str(s) == [t |-> "str", s |-> s]
NaN == [t |-> "nan"]
Null == [t |-> "null"]
None == [t |-> "none"]     \* a variable the running specification does not use

IsNum(v) == v.t = "num"
IsStr(v) == v.t = "str"

\* a + b and a - b on numbers (NaN is contagious).
Add(a, b) == IF IsNum(a) /\ IsNum(b) THEN Num(a.n + b.n) ELSE NaN
Sub(a, b) == IF IsNum(a) /\ IsNum(b) THEN Num(a.n - b.n) ELSE NaN

\* v ? ... : ... (0, NaN, "", null and undefined are falsy).
Truthy(v) == (IsNum(v) /\ v.n # 0) \/ (IsStr(v) /\ v.s # <<>>)

\* v || 0
OrZero(v) == IF Truthy(v) THEN v ELSE Num(0)

\* JSON.stringify of a number-or-null: NaN is written as null.
ToJson(v) == IF IsNum(v) THEN v ELSE Null

(***************************************************************************)
(* Strings: sequences of one-character strings.                            *)
(***************************************************************************)
Digits == <<"0", "1", "2", "3", "4", "5", "6", "7", "8", "9">>
DigitSet == {Digits[i] : i \in DOMAIN Digits}
DigitVal(c) == (CHOOSE i \in DOMAIN Digits : Digits[i] = c) - 1

RECURSIVE Decimal(_)
Decimal(d) ==
    IF d = <<>> THEN 0
    ELSE 10 * Decimal(SubSeq(d, 1, Len(d) - 1)) + DigitVal(d[Len(d)])

RECURSIVE DigitsOf(_)
DigitsOf(n) ==
    IF n < 10 THEN <<Digits[n + 1]>>
    ELSE DigitsOf(n \div 10) \o <<Digits[(n % 10) + 1]>>

\* String(n) for an integer n.
NumToString(n) == IF n < 0 THEN <<"-">> \o DigitsOf(-n) ELSE DigitsOf(n)

RECURSIVE DropSpaces(_)
DropSpaces(s) ==
    IF s # <<>> /\ s[1] = " " THEN DropSpaces(Tail(s)) ELSE s

RECURSIVE DigitPrefix(_)
DigitPrefix(s) ==
    IF s # <<>> /\ s[1] \in DigitSet
    THEN <<s[1]>> \o DigitPrefix(Tail(s))
    ELSE <<>>

\* parseFloat(s): leading white space is skipped, then an optional sign and
\* the longest run of digits are read; no digit gives NaN.
parseFloat(s) ==
    LET t == DropSpaces(s)
        signed == t # <<>> /\ t[1] \in {"-", "+"}
        u == IF signed THEN Tail(t) ELSE t
        d == DigitPrefix(u)
    IN  IF d = <<>> THEN NaN
        ELSE IF signed /\ t[1] = "-" THEN Num(0 - Decimal(d))
        ELSE Num(Decimal(d))

\* s.replace(/[^0-9.-]+/g, "")
StripNonNumeric(s) == SelectSeq(s, LAMBDA c : c \in DigitSet \cup {".", "-"})

\* String(v) of a cell value that is a number or a string.
StringOf(v) == IF IsStr(v) THEN v.s ELSE NumToString(v.n)

(***************************************************************************)
(* "decumulate" revision: getPeriodValues, the cumulative sums and their   *)
(* conversion to per-period values.                                        *)
(***************************************************************************)
\* getPeriodValues(row): one number per cell of the row.
getPeriodValues(cells) ==
    [i \in 1..Len(cells) |->
        IF IsNum(cells[i]) THEN cells[i]
        ELSE IF IsStr(cells[i]) THEN parseFloat(cells[i].s)
        ELSE Num(0)]

\* One pass of "vals.forEach((v, i) => { acc[i] = (acc[i] || 0) + v })".
AddRow(acc, vals) ==
    [i \in 1..(IF Len(acc) > Len(vals) THEN Len(acc) ELSE Len(vals)) |->
        IF i > Len(vals) THEN acc[i]
        ELSE IF i > Len(acc) THEN Add(Num(0), vals[i])
        ELSE Add(OrZero(acc[i]), vals[i])]

\* The loop "for (const row of rows) { ... }" over the rows of a section.
RECURSIVE SumRows(_)
SumRows(rows) ==
    IF rows = <<>> THEN <<>>
    ELSE AddRow(SumRows(SubSeq(rows, 1, Len(rows) - 1)),
                getPeriodValues(rows[Len(rows)].cells))

\* Mutants of the de-cumulation.
actualPeriodValues_FromFirst(cumulative) ==
    [i \in 1..Len(cumulative) |->
        IF i = 1 THEN cumulative[i] ELSE Sub(cumulative[i], cumulative[1])]

actualPeriodValues_NaNAsZero(cumulative) ==
    [i \in 1..Len(cumulative) |->
        IF i = 1 THEN cumulative[i]
        ELSE Sub(OrZero(cumulative[i]), OrZero(cumulative[i - 1]))]

\* cumulative.map((v, i, arr) => i === 0 ? v : v - arr[i - 1])
actualPeriodValues(cumulative) ==
    [i \in 1..Len(cumulative) |->
        IF i = 1 THEN cumulative[i] ELSE Sub(cumulative[i], cumulative[i - 1])]

(***************************************************************************)
(* Specification of the de-cumulation alone: a cumulative series is drawn  *)
(* and converted.  The entries of a cumulative series are numbers or NaN.  *)
(***************************************************************************)
SeriesValues == {Num(n) : n \in (0 - 1)..MaxVal} \cup {NaN}

SeqsUpTo(S, n) == UNION {[1..k -> S] : k \in 0..n}

InitDecum ==
    /\ pc = "start"
    /\ input \in SeqsUpTo(SeriesValues, MaxLen)
    /\ output = None
    /\ rev = "decumulate"
    /\ args = None /\ actualResp = None /\ budgetResp = None /\ reply = None

Decumulate ==
    /\ pc = "start"
    /\ output' = actualPeriodValues(input)
    /\ pc' = "done"
    /\ UNCHANGED <<rev, input, args, actualResp, budgetResp, reply>>

NextDecum == Decumulate

SpecDecum == InitDecum /\ [][NextDecum]_vars

\* A series entry that is written as null in the reply.
IsNullEntry(v) == ToJson(v) = Null

\* C1: the de-cumulated series has the length of the input, its first entry
\* is the input's first entry, and every later entry is input[i] - input[i-1]
\* when both are non-null and null otherwise.
C1_Decumulation ==
    pc = "done" =>
        /\ Len(output) = Len(input)
        /\ Len(input) >= 1 => output[1] = input[1]
        /\ \A i \in 2..Len(input) :
              IF ~IsNullEntry(input[i]) /\ ~IsNullEntry(input[i - 1])
              THEN output[i] = Num(input[i].n - input[i - 1].n)
              ELSE IsNullEntry(output[i])

C1_Witness ==
    /\ pc = "done"
    /\ Len(input) = 3
    /\ input[1] = Num(1) /\ input[2] = NaN /\ input[3] = Num(2)
    /\ output[1] = Num(1) /\ IsNullEntry(output[2]) /\ IsNullEntry(output[3])

RECURSIVE PrefixSums(_)
PrefixSums(s) ==
    IF s = <<>> THEN <<>>
    ELSE LET p == PrefixSums(SubSeq(s, 1, Len(s) - 1))
         IN  Append(p, IF p = <<>> THEN s[Len(s)]
                       ELSE Add(p[Len(p)], s[Len(s)]))

NoNulls(s) == \A i \in 1..Len(s) : ~IsNullEntry(s[i])
NonDecreasing(s) == \A i \in 2..Len(s) : s[i - 1].n <= s[i].n

IsArrayIndex(k) ==
    /\ k # <<>>
    /\ \A i \in 1..Len(k) : k[i] \in DigitSet
    /\ (Len(k) > 1 => k[1] # "0")

ObjectKeys(obj) == [i \in 1..Len(obj) |-> obj[i][1]]
KeySet(obj) == {obj[i][1] : i \in 1..Len(obj)}

\* key in obj
HasKey(obj, k) == k \in KeySet(obj)

\* obj[key], for a key the object has.
Get(obj, k) == obj[CHOOSE i \in 1..Len(obj) : obj[i][1] = k][2]

\* Number of entries that stay in front of a newly created key.
InsertAt(obj, k) ==
    IF IsArrayIndex(k)
    THEN Cardinality({i \in 1..Len(obj) :
            IsArrayIndex(obj[i][1]) /\ Decimal(obj[i][1]) < Decimal(k)})
    ELSE Len(obj)

\* obj[key] = value
ObjSet(obj, k, v) ==
    IF HasKey(obj, k)
    THEN [i \in 1..Len(obj) |-> IF obj[i][1] = k THEN <<k, v>> ELSE obj[i]]
    ELSE LET n == InsertAt(obj, k)
         IN  SubSeq(obj, 1, n) \o <<<<k, v>>>> \o SubSeq(obj, n + 1, Len(obj))

\* Array.from(new Set(keys)): the first occurrence of every key, in order.
RECURSIVE Dedup(_)
Dedup(keys) ==
    IF keys = <<>> THEN <<>>
    ELSE LET front == Dedup(SubSeq(keys, 1, Len(keys) - 1))
             last == keys[Len(keys)]
         IN  IF \E i \in 1..Len(front) : front[i] = last
             THEN front ELSE Append(front, last)

(***************************************************************************)
(* "rowlabel" revision: the periods of a section are its rows, the first   *)
(* cell of a row is the period label and the second its value.             *)
(***************************************************************************)
\* value ? parseFloat(String(value).replace(/[^0-9.-]+/g, "")) : null
ParseCellOrNull(v) ==
    IF Truthy(v) THEN parseFloat(StripNonNumeric(StringOf(v))) ELSE Null

\* cells[i]?.value (i counted from 1 here)
CellAt(cells, i) == IF i <= Len(cells) THEN cells[i] ELSE Null

\* The loop over section.rows of extractPeriodValues.
RECURSIVE RowLabelValues(_)
RowLabelValues(rows) ==
    IF rows = <<>> THEN <<>>
    ELSE LET result == RowLabelValues(SubSeq(rows, 1, Len(rows) - 1))
             row == rows[Len(rows)]
             period == CellAt(row.cells, 1)
             value == ParseCellOrNull(CellAt(row.cells, 2))
         IN  IF row.rowType = "Row" /\ Len(row.cells) > 1 /\ Truthy(period)
             THEN ObjSet(result, StringOf(period), value)
             ELSE result

\* Mutants of the alignment.
comparison_BudgetFirst(actualPeriods, budgetPeriods) ==
    LET allPeriods == Dedup(ObjectKeys(budgetPeriods) \o ObjectKeys(actualPeriods))
    IN  [i \in 1..Len(allPeriods) |->
            [period |-> allPeriods[i],
             actual |-> IF HasKey(actualPeriods, allPeriods[i])
                        THEN Get(actualPeriods, allPeriods[i]) ELSE Null,
             budgeted |-> IF HasKey(budgetPeriods, allPeriods[i])
                          THEN Get(budgetPeriods, allPeriods[i]) ELSE Null]]

\* allPeriods = Array.from(new Set([...keys(actual), ...keys(budget)]));
\* comparison = allPeriods.map(period => ({period, actual, budgeted}))
comparison(actualPeriods, budgetPeriods) ==
    LET allPeriods == Dedup(ObjectKeys(actualPeriods) \o ObjectKeys(budgetPeriods))
    IN  [i \in 1..Len(allPeriods) |->
            [period |-> allPeriods[i],
             actual |-> IF HasKey(actualPeriods, allPeriods[i])
                        THEN Get(actualPeriods, allPeriods[i]) ELSE Null,
             budgeted |-> IF HasKey(budgetPeriods, allPeriods[i])
                          THEN Get(budgetPeriods, allPeriods[i]) ELSE Null]]

(***************************************************************************)
(* Specification of the alignment alone: the rows of the actual and of the *)
(* budget section are drawn, both maps are built from them and aligned.    *)
(***************************************************************************)
DataRow(cells) == [rowType |-> "Row", title |-> Null, cells |-> cells, rows |-> <<>>]

AlignLabels == {Str(<<"J">>), Str(<<"F">>), Num(2), Str(<<"1", "0">>)}
AlignRows(values) == {DataRow(<<l, v>>) : l \in AlignLabels, v \in values}

InitAlign ==
    /\ pc = "start"
    /\ input \in [actualRows : SeqsUpTo(AlignRows({Num(1), Null}), MaxPairs),
                  budgetRows : SeqsUpTo(AlignRows({Num(2), Str(<<"$", "3">>)}), MaxPairs)]
    /\ output = None
    /\ rev = "rowlabel"
    /\ args = None /\ actualResp = None /\ budgetResp = None /\ reply = None

Align ==
    /\ pc = "start"
    /\ LET actualPeriods == RowLabelValues(input.actualRows)
           budgetPeriods == RowLabelValues(input.budgetRows)
       IN  output' = [actualPeriods |-> actualPeriods,
                      budgetPeriods |-> budgetPeriods,
                      comparison |-> comparison(actualPeriods, budgetPeriods)]
    /\ pc' = "done"
    /\ UNCHANGED <<rev, input, args, actualResp, budgetResp, reply>>

NextAlign == Align

SpecAlign == InitAlign /\ [][NextAlign]_vars

\* C4: the alignment yields one record per distinct label of the two maps,
\* the labels of the actual map first, in its key order, then the labels
\* only the budget map has, in its key order; a record's actual (budget) is
\* the value the actual (budget) map holds for the label, null when absent.
C4_Alignment ==
    pc = "done" =>
        LET A == output.actualPeriods
            B == output.budgetPeriods
            out == output.comparison
            onlyB == SelectSeq(ObjectKeys(B), LAMBDA k : k \notin KeySet(A))
        IN  /\ Len(out) = Cardinality(KeySet(A) \cup KeySet(B))
            /\ \A i, j \in 1..Len(out) : out[i].period = out[j].period => i = j
            /\ \A i \in 1..Len(A) : out[i].period = A[i][1]
            /\ \A i \in 1..Len(onlyB) : out[Len(A) + i].period = onlyB[i]
            /\ \A i \in 1..Len(out) :
                  /\ out[i].actual =
                        (IF \E j \in 1..Len(A) : A[j][1] = out[i].period
                         THEN A[CHOOSE j \in 1..Len(A) : A[j][1] = out[i].period][2]
                         ELSE Null)
                  /\ out[i].budgeted =
                        (IF \E j \in 1..Len(B) : B[j][1] = out[i].period
                         THEN B[CHOOSE j \in 1..Len(B) : B[j][1] = out[i].period][2]
                         ELSE Null)

\* Both maps hold two labels, one of them shared and one their own.
C4_Witness ==
    /\ pc = "done"
    /\ ObjectKeys(output.actualPeriods) = <<<<"J">>, <<"F">>>>
    /\ ObjectKeys(output.budgetPeriods) = <<<<"2">>, <<"J">>>>
    /\ Len(output.comparison) = 3
    /\ output.comparison[3] = [period |-> <<"2">>, actual |-> Null, budgeted |-> Num(2)]
    /\ output.comparison[1].budgeted = Num(3)

(***************************************************************************)
(* Report rows.  A report is a sequence of rows; a Section row has a title *)
(* and child rows, the other rows have cells.                              *)
(***************************************************************************)
Row(rowType, cells) == [rowType |-> rowType, title |-> Null, cells |-> cells, rows |-> <<>>]
Section(title, rows) == [rowType |-> "Section", title |-> Str(title), cells |-> <<>>, rows |-> rows]
HeaderRow(cells) == Row("Header", cells)

(***************************************************************************)
(* "sections" revision: extractPeriodValues(section).                      *)
(***************************************************************************)
\* The number a value cell adds to its period: undefined, null and "" add
\* 0, and so does a text parseFloat cannot read after the stripping.
CellNumber(val) ==
    IF val = Null \/ val = Str(<<>>) THEN 0
    ELSE LET num == parseFloat(StripNonNumeric(StringOf(val)))
         IN  IF num = NaN THEN 0 ELSE num.n

\* First loop: the cell count of the first row with more than one cell,
\* minus the label cell; 0 when there is no such row.
PeriodCount(rows) ==
    LET wide == {i \in 1..Len(rows) : Len(rows[i].cells) > 1}
    IN  IF wide = {} THEN 0
        ELSE Len(rows[CHOOSE i \in wide : \A j \in wide : i <= j].cells) - 1

\* Second loop: sums[i] += value of cell i + 1, over the rows with exactly
\* periodCount + 1 cells.
RECURSIVE SectionSums(_, _)
SectionSums(rows, periodCount) ==
    IF rows = <<>> THEN [i \in 1..periodCount |-> 0]
    ELSE LET sums == SectionSums(SubSeq(rows, 1, Len(rows) - 1), periodCount)
             row == rows[Len(rows)]
         IN  IF Len(row.cells) = periodCount + 1
             THEN [i \in 1..periodCount |-> sums[i] + CellNumber(row.cells[i + 1])]
             ELSE sums

\* Mutant: the period count is taken from the last row with several cells.
extractPeriodValues_LastRow(section) ==
    IF section = Null THEN <<>>
    ELSE LET wide == {i \in 1..Len(section.rows) : Len(section.rows[i].cells) > 1}
             periodCount ==
                 IF wide = {} THEN 0
                 ELSE Len(section.rows[CHOOSE i \in wide : \A j \in wide : i >= j].cells) - 1
         IN  IF periodCount = 0 THEN <<>>
             ELSE [i \in 1..periodCount |-> Num(SectionSums(section.rows, periodCount)[i])]

\* extractPeriodValues(section): section is a Section row or undefined.
extractPeriodValues(section) ==
    IF section = Null THEN <<>>
    ELSE LET periodCount == PeriodCount(section.rows)
             found == \E i \in 1..Len(section.rows) :
                         Len(section.rows[i].cells) = periodCount + 1
         IN  IF periodCount = 0 THEN <<>>
             ELSE IF ~found THEN [i \in 1..periodCount |-> Null]
             ELSE [i \in 1..periodCount |-> Num(SectionSums(section.rows, periodCount)[i])]

\* section.rows.filter(row => row.rowType === "Row"), [] for no section.
DataRowsOf(section) ==
    IF section = Null THEN <<>>
    ELSE SelectSeq(section.rows, LAMBDA row : row.rowType = "Row")

(***************************************************************************)
(* Specification of the extraction alone: a section (or none) of a report  *)
(* with periodColumns period columns is drawn and reduced to its series,   *)
(* by extractPeriodValues in the "sections" revision and by the cumulative *)
(* sums over getPeriodValues in the "decumulate" revision.  A row is a     *)
(* head cell followed by the cells of a repeating body, cut to its width.  *)
(***************************************************************************)
RowPatterns ==
    { [rowType |-> "Row", head |-> Str(<<"x">>), body |-> <<Num(1), Num(2)>>],
      [rowType |-> "Row", head |-> Str(<<"x">>), body |-> <<Num(2), Null>>],
      [rowType |-> "Row", head |-> Str(<<"x">>), body |-> <<Str(<<>>), Str(<<"$", "1">>)>>],
      [rowType |-> "Row", head |-> Str(<<"x">>), body |-> <<Str(<<"a">>), Str(<<"-", "2">>)>>],
      [rowType |-> "Row", head |-> Num(0), body |-> <<Num(0)>>],
      [rowType |-> "SummaryRow", head |-> Str(<<"T">>), body |-> <<Num(3)>>] }

PatternRow(p, w) ==
    Row(p.rowType,
        [i \in 1..w |-> IF i = 1 THEN p.head
                        ELSE p.body[((i - 2) % Len(p.body)) + 1]])

SampleRows == {PatternRow(p, w) : p \in RowPatterns, w \in 0..MaxCells}

InitExtract ==
    /\ pc = "start"
    /\ rev \in {"sections", "decumulate"}
    /\ input \in [periodColumns : 1..(MaxCells - 1),
                  section : {Null} \cup
                      {Section(<<"a">>, rows) : rows \in SeqsUpTo(SampleRows, MaxRows)}]
    /\ output = None
    /\ args = None /\ actualResp = None /\ budgetResp = None /\ reply = None

ExtractSections ==
    /\ pc = "start" /\ rev = "sections"
    /\ output' = extractPeriodValues(input.section)
    /\ pc' = "done"
    /\ UNCHANGED <<rev, input, args, actualResp, budgetResp, reply>>

ExtractCumulative ==
    /\ pc = "start" /\ rev = "decumulate"
    /\ output' = SumRows(DataRowsOf(input.section))
    /\ pc' = "done"
    /\ UNCHANGED <<rev, input, args, actualResp, budgetResp, reply>>

NextExtract == ExtractSections \/ ExtractCumulative

SpecExtract == InitExtract /\ [][NextExtract]_vars

\* The rows of the drawn section ([] for no section).
InputRows == IF input.section = Null THEN <<>> ELSE input.section.rows

RECURSIVE ClaimedSum(_, _)
ClaimedSum(rows, i) ==
    IF rows = <<>> THEN 0
    ELSE ClaimedSum(Tail(rows), i) + CellNumber(CellAt(rows[1].cells, i))

\* C7: the value of a period is the sum, over the contributing rows of the
\* section, of the period's cell, an empty, null or unparsable cell counting
\* as 0; no such cell makes the sum null.  (The "decumulate" revision keeps
\* the label column as entry 1 of its series; the entries after it are the
\* periods.)
C7_SumOfCells ==
    pc = "done" =>
        \A i \in 1..Len(output) :
            IF rev = "sections"
            THEN output[i] = Num(ClaimedSum(
                    SelectSeq(InputRows, LAMBDA r : Len(r.cells) = Len(output) + 1), i + 1))
            ELSE i > 1 => output[i] = Num(ClaimedSum(DataRowsOf(input.section), i))

\* C8: a section matched by title that has no data row yields M nulls, M
\* the number of period columns, and not the zeros of an all-zero section.
C8_EmptySectionNulls ==
    (/\ pc = "done" /\ rev = "sections"
     /\ input.section # Null
     /\ \A i \in 1..Len(InputRows) : Len(InputRows[i].cells) <= 1)
    => output = [i \in 1..input.periodColumns |-> Null]

(***************************************************************************)
(* Section resolution.                                                     *)
(***************************************************************************)
LowerLetters == <<"a", "b", "l", "o", "p", "t", "x", "y", "z">>
UpperLetters == <<"A", "B", "L", "O", "P", "T", "X", "Y", "Z">>

LowerChar(c) ==
    IF \E i \in DOMAIN UpperLetters : UpperLetters[i] = c
    THEN LowerLetters[CHOOSE i \in DOMAIN UpperLetters : UpperLetters[i] = c]
    ELSE c

UpperChar(c) ==
    IF \E i \in DOMAIN LowerLetters : LowerLetters[i] = c
    THEN UpperLetters[CHOOSE i \in DOMAIN LowerLetters : LowerLetters[i] = c]
    ELSE c

toLowerCase(s) == [i \in 1..Len(s) |-> LowerChar(s[i])]
toUpperCase(s) == [i \in 1..Len(s) |-> UpperChar(s[i])]

RECURSIVE DropTrailingSpaces(_)
DropTrailingSpaces(s) ==
    IF s # <<>> /\ s[Len(s)] = " "
    THEN DropTrailingSpaces(SubSeq(s, 1, Len(s) - 1))
    ELSE s

trim(s) == DropTrailingSpaces(DropSpaces(s))

\* haystack.includes(needle)
includes(haystack, needle) ==
    \E i \in 1..(Len(haystack) - Len(needle) + 1) :
        SubSeq(haystack, i, i + Len(needle) - 1) = needle

\* rows.filter(r => r.rowType === "Section" && typeof r.title === "string")
\*     .map(r => r.title)
listSectionTitles(rows) ==
    LET sections == SelectSeq(rows, LAMBDA r : r.rowType = "Section" /\ IsStr(r.title))
    IN  [i \in 1..Len(sections) |-> sections[i].title.s]

\* Mutant: the title must equal the query.
MatchesMetric_ExactOnly(title, metric) ==
    toLowerCase(trim(title)) = toLowerCase(trim(metric))

\* title.trim().toLowerCase() === lower || title.trim().toLowerCase().includes(lower)
MatchesMetric(title, metric) ==
    LET lower == toLowerCase(trim(metric))
    IN  \/ toLowerCase(trim(title)) = lower
        \/ includes(toLowerCase(trim(title)), lower)

\* "sections" revision: Array.from(allTitlesSet).filter(...), allTitlesSet
\* the titles of the actual report followed by those of the budget report.
sectionFilter(actualTitles, budgetTitles, metric) ==
    SelectSeq(Dedup(actualTitles \o budgetTitles),
              LAMBDA title : MatchesMetric(title, metric))

\* rows.find(...): the least of the indices of the matching rows, 0 for none.
FirstOf(S) == IF S = {} THEN 0 ELSE CHOOSE i \in S : \A j \in S : i <= j

\* "summary" and "rowlabel" revisions: the first Section row whose
\* lower-cased title contains the lower-cased query.
FindSectionContaining(rows, sectionTitle) ==
    FirstOf({i \in 1..Len(rows) :
        /\ rows[i].rowType = "Section"
        /\ IsStr(rows[i].title)
        /\ includes(toLowerCase(rows[i].title.s), toLowerCase(sectionTitle))})

\* "decumulate" revision: the first Section row whose lower-cased title is
\* the lower-cased query.
FindSectionEqual(rows, metric) ==
    FirstOf({i \in 1..Len(rows) :
        /\ rows[i].rowType = "Section"
        /\ IsStr(rows[i].title)
        /\ toLowerCase(rows[i].title.s) = toLowerCase(metric)})

(***************************************************************************)
(* Specification of the resolution alone: the section titles of the two    *)
(* reports and a query are drawn and resolved as each revision does.       *)
(***************************************************************************)
ResolveTitles ==
    { <<"a", "b">>, <<"A", "b", " ">>, <<"a">>, <<"x", "a", "b">> }
ResolveMetrics ==
    { <<"a", "b">>, <<" ", "A", "B">>, <<"a">>, <<"b", "a", "b">>, <<"x", "a", "b", "z">>, <<"z">> }

TitledSections(titles) == [i \in 1..Len(titles) |-> Section(titles[i], <<>>)]

InitResolve ==
    /\ pc = "start"
    /\ rev \in {"sections", "decumulate", "summary"}
    /\ input \in [actualTitles : SeqsUpTo(ResolveTitles, MaxTitles),
                  budgetTitles : SeqsUpTo(ResolveTitles, MaxTitles - 1),
                  metric : ResolveMetrics]
    /\ output = None
    /\ args = None /\ actualResp = None /\ budgetResp = None /\ reply = None

ResolveSections ==
    /\ pc = "start" /\ rev = "sections"
    /\ output' = sectionFilter(listSectionTitles(TitledSections(input.actualTitles)),
                               listSectionTitles(TitledSections(input.budgetTitles)),
                               input.metric)
    /\ pc' = "done"
    /\ UNCHANGED <<rev, input, args, actualResp, budgetResp, reply>>

ResolveEqual ==
    /\ pc = "start" /\ rev = "decumulate"
    /\ output' = FindSectionEqual(TitledSections(input.actualTitles), input.metric)
    /\ pc' = "done"
    /\ UNCHANGED <<rev, input, args, actualResp, budgetResp, reply>>

ResolveContaining ==
    /\ pc = "start" /\ rev = "summary"
    /\ output' = FindSectionContaining(TitledSections(input.actualTitles), input.metric)
    /\ pc' = "done"
    /\ UNCHANGED <<rev, input, args, actualResp, budgetResp, reply>>

NextResolve == ResolveSections \/ ResolveEqual \/ ResolveContaining

SpecResolve == InitResolve /\ [][NextResolve]_vars

AllInputTitles == Dedup(input.actualTitles \o input.budgetTitles)
Normal(s) == toLowerCase(trim(s))

\* Resolution as claimed: the exactly-equal titles when there is one, else
\* the titles that contain the query or are contained in it.
ClaimedResolution(titles, metric) ==
    LET exact == SelectSeq(titles, LAMBDA t : Normal(t) = Normal(metric))
    IN  IF exact # <<>> THEN exact
        ELSE SelectSeq(titles, LAMBDA t :
                \/ includes(Normal(t), Normal(metric))
                \/ includes(Normal(metric), Normal(t)))

ReportRows(report) == IF report = Null THEN <<>> ELSE report.rows

\* `Period ${i}`
PeriodLabel(i) == <<"P", "e", "r", "i", "o", "d", " ">> \o NumToString(i)

\* "summary" revision: the loop over the cells of the summary row.
RECURSIVE SummaryValues(_, _)
SummaryValues(cells, n) ==
    IF n <= 1 THEN <<>>
    ELSE ObjSet(SummaryValues(cells, n - 1), PeriodLabel(n - 1),
                ParseCellOrNull(cells[n]))

\* "summary" revision: extractPeriodValues(report, sectionTitle).
extractSummaryPeriodValues(report, sectionTitle) ==
    LET rows == ReportRows(report)
        k == FindSectionContaining(rows, sectionTitle)
        children == IF k = 0 THEN <<>> ELSE rows[k].rows
        s == FirstOf({i \in 1..Len(children) :
                \/ children[i].rowType = "Summary"
                \/ /\ IsStr(CellAt(children[i].cells, 1))
                   /\ Truthy(CellAt(children[i].cells, 1))
                   /\ includes(toLowerCase(children[i].cells[1].s),
                               <<"t", "o", "t", "a", "l">>)})
    IN  IF s = 0 THEN <<>>
        ELSE SummaryValues(children[s].cells, Len(children[s].cells))

\* "rowlabel" revision: extractPeriodValues(report, sectionTitle).
extractRowLabelPeriodValues(report, sectionTitle) ==
    LET rows == ReportRows(report)
        k == FindSectionContaining(rows, sectionTitle)
    IN  IF k = 0 THEN <<>> ELSE RowLabelValues(rows[k].rows)

\* "decumulate" revision: getSectionRows / getBudgetSectionRows.
getSectionRows(report, metric) ==
    LET rows == ReportRows(report)
        k == FindSectionEqual(rows, metric)
    IN  IF k = 0 THEN <<>> ELSE DataRowsOf(rows[k])

\* "decumulate" revision: the period labels, from the cells of the Header
\* row of the actual report, else "Period 1", "Period 2", ...
periodsArr(actualReport, values) ==
    LET rows == ReportRows(actualReport)
        h == FirstOf({i \in 1..Len(rows) : rows[i].rowType = "Header"})
        titles == IF h = 0 THEN <<>>
                  ELSE [i \in 1..Len(rows[h].cells) |-> StringOf(rows[h].cells[i])]
    IN  IF titles # <<>> THEN titles
        ELSE [i \in 1..Len(values) |-> PeriodLabel(i)]

\* arr[i] ?? null
AtOrNull(arr, i) == IF i <= Len(arr) THEN arr[i] ELSE Null

\* Mutant: the budget values are de-cumulated like the actual ones.
decumulateResult_BudgetToo(actualReport, values, budgetValues) ==
    LET periods == periodsArr(actualReport, values)
    IN  [i \in 1..Len(periods) |->
            [period |-> periods[i],
             actual |-> ToJson(AtOrNull(values, i)),
             budgeted |-> ToJson(AtOrNull(actualPeriodValues(budgetValues), i))]]

\* "decumulate" revision: result = periodsArr.map((period, i) => ...), as
\* JSON.stringify writes it.
decumulateResult(actualReport, values, budgetValues) ==
    LET periods == periodsArr(actualReport, values)
    IN  [i \in 1..Len(periods) |->
            [period |-> periods[i],
             actual |-> ToJson(AtOrNull(values, i)),
             budgeted |-> ToJson(AtOrNull(budgetValues, i))]]

\* "sections" revision: extractPeriodLabels(section).
extractPeriodLabels(section) ==
    IF section = Null THEN <<>>
    ELSE LET k == FirstOf({i \in 1..Len(section.rows) : Len(section.rows[i].cells) > 1})
         IN  IF k = 0 THEN <<>>
             ELSE [i \in 1..(Len(section.rows[k].cells) - 1) |->
                     IF Truthy(section.rows[k].cells[i + 1])
                     THEN section.rows[k].cells[i + 1] ELSE Str(<<>>)]

\* rows.find(row => row.rowType === "Section" && row.title === sectionTitle)
FindSectionTitled(rows, sectionTitle) ==
    LET k == FirstOf({i \in 1..Len(rows) :
                rows[i].rowType = "Section" /\ rows[i].title = Str(sectionTitle)})
    IN  IF k = 0 THEN Null ELSE rows[k]

Max(a, b) == IF a >= b THEN a ELSE b

\* Mutant: every record also carries variance = actual - budget.
sectionRecords_WithVariance(actualReport, budgetReport, sectionTitle) ==
    LET actualSection == FindSectionTitled(ReportRows(actualReport), sectionTitle)
        budgetSection == FindSectionTitled(ReportRows(budgetReport), sectionTitle)
        periodLabels == extractPeriodLabels(
                            IF actualSection # Null THEN actualSection ELSE budgetSection)
        actualValues == extractPeriodValues(actualSection)
        budgetValues == extractPeriodValues(budgetSection)
        maxPeriods == Max(Max(Len(actualValues), Len(budgetValues)), Len(periodLabels))
    IN  [i \in 1..maxPeriods |->
            [period |-> IF i <= Len(periodLabels) /\ Truthy(periodLabels[i])
                        THEN periodLabels[i] ELSE Str(PeriodLabel(i)),
             actual |-> AtOrNull(actualValues, i),
             budget |-> AtOrNull(budgetValues, i),
             variance |-> Sub(AtOrNull(actualValues, i), AtOrNull(budgetValues, i))]]

\* "sections" revision: the records of one section title.
sectionRecords(actualReport, budgetReport, sectionTitle) ==
    LET actualSection == FindSectionTitled(ReportRows(actualReport), sectionTitle)
        budgetSection == FindSectionTitled(ReportRows(budgetReport), sectionTitle)
        periodLabels == extractPeriodLabels(
                            IF actualSection # Null THEN actualSection ELSE budgetSection)
        actualValues == extractPeriodValues(actualSection)
        budgetValues == extractPeriodValues(budgetSection)
        maxPeriods == Max(Max(Len(actualValues), Len(budgetValues)), Len(periodLabels))
    IN  [i \in 1..maxPeriods |->
            [period |-> IF i <= Len(periodLabels) /\ Truthy(periodLabels[i])
                        THEN periodLabels[i] ELSE Str(PeriodLabel(i)),
             actual |-> IF i <= Len(actualValues) THEN actualValues[i] ELSE Null,
             budget |-> IF i <= Len(budgetValues) THEN budgetValues[i] ELSE Null]]

\* "sections" revision: result[sectionTitle] = arr, for every title kept.
RECURSIVE sectionsResult(_, _, _)
sectionsResult(actualReport, budgetReport, titles) ==
    IF titles = <<>> THEN <<>>
    ELSE ObjSet(sectionsResult(actualReport, budgetReport,
                               SubSeq(titles, 1, Len(titles) - 1)),
                titles[Len(titles)],
                sectionRecords(actualReport, budgetReport, titles[Len(titles)]))

\* JSON.stringify of the records of the "summary" and "rowlabel" revisions.
JsonRecords(records) ==
    [i \in 1..Len(records) |->
        [period |-> records[i].period,
         actual |-> ToJson(records[i].actual),
         budgeted |-> ToJson(records[i].budgeted)]]

\* Mutant: ALL is recognised in upper case only, and not trimmed.
IsAllMetric_CaseSensitive(metric) ==
    \/ ~Truthy(metric)
    \/ metric.s = <<"A", "L", "L">>
    \/ metric.s = <<"*">>

\* !args.metric || metric.trim().toUpperCase() === "ALL" || metric.trim() === "*"
IsAllMetric(metric) ==
    \/ ~Truthy(metric)
    \/ toUpperCase(trim(metric.s)) = <<"A", "L", "L">>
    \/ trim(metric.s) = <<"*">>

(***************************************************************************)
(* Specification of the tool: one invocation of the handler of a revision, *)
(* with the two fetches answered by the backend.                           *)
(***************************************************************************)
Revisions == {"summary", "decumulate", "raw", "sections", "rowlabel"}

MainTitles == { <<"a", "b">>, <<"x", "A", "B">> }
MainMetrics == { Str(<<"a", "b">>), Str(<<"A", "B", " ">>), Str(<<"z">>) }
\* The "sections" revision alone takes an optional metric, with ALL and *.
AllMetrics == { Null, Str(<<"a", "l", "l">>), Str(<<"*">>) }

MainRows ==
    { Row("Row", <<Str(<<"x">>), Num(1), Num(3)>>),
      Row("Row", <<Str(<<"y">>), Str(<<"$", "2">>), Null>>),
      Row("SummaryRow", <<Str(<<"T", "o", "t", "a", "l">>), Num(3), Num(4)>>) }

MainSections ==
    {Section(t, rows) : t \in MainTitles, rows \in SeqsUpTo(MainRows, MaxRows)}

MainHeader == HeaderRow(<<Str(<<>>), Str(<<"p", "1">>), Str(<<"p", "2">>)>>)

\* Reports with two sections, of the same or of different titles.
PairSections ==
    {Section(t, <<r>>) : t \in MainTitles,
        r \in { Row("Row", <<Str(<<"x">>), Num(1), Num(3)>>),
                Row("SummaryRow", <<Str(<<"T", "o", "t", "a", "l">>), Num(3), Num(4)>>) }}
MainPairs == {<<s1, s2>> : s1 \in PairSections, s2 \in PairSections}

ActualReports ==
    {[rows |-> h \o secs] : h \in {<<>>, <<MainHeader>>},
                            secs \in SeqsUpTo(MainSections, 1) \cup MainPairs}
\* The sections of the budget report hold at most one row.
BudgetSections == {Section(t, rows) : t \in MainTitles, rows \in SeqsUpTo(MainRows, 1)}
BudgetReports == {[rows |-> secs] : secs \in SeqsUpTo(BudgetSections, 1) \cup MainPairs}

ErrorMessages == {Str(<<"e">>), Str(<<"4", "0", "1">>)}

Ok(result) == [isError |-> FALSE, result |-> result]
Err(message) == [isError |-> TRUE, error |-> message]

\* What listXeroProfitAndLoss and listXeroBudgetSummary may answer.
ActualResponses == {Ok(r) : r \in ActualReports} \cup {Err(m) : m \in ErrorMessages}
BudgetResponses ==
    {Ok(<<>>)} \cup {Ok(<<r>>) : r \in BudgetReports} \cup {Err(m) : m \in ErrorMessages}

\* Mutant: the reply names the failed fetch but not its message.
ErrorReply_NoMessage(what, message) ==
    [kind |-> "error",
     text |-> <<"E", "r", "r", "o", "r", " ", "f", "e", "t", "c", "h", "i", "n", "g", " ">> \o what]

\* `Error fetching actuals: ${actualResp.error}` and
\* `Error fetching budget: ${budgetResp.error}`
ErrorReply(what, message) ==
    [kind |-> "error",
     text |-> <<"E", "r", "r", "o", "r", " ", "f", "e", "t", "c", "h", "i", "n", "g", " ">> \o what \o <<":", " ">>
              \o StringOf(message)]

\* actualResp.result and budgetResp.result?.[0]
actualReport == actualResp.result
budgetReport == IF budgetResp.result = <<>> THEN Null ELSE budgetResp.result[1]

Init ==
    /\ pc = "start"
    /\ rev \in Revisions
    /\ args \in [metric : MainMetrics \cup (IF rev = "sections" THEN AllMetrics ELSE {})]
    /\ actualResp = None /\ budgetResp = None /\ reply = None
    /\ input = None /\ output = None

\* const actualResp = await listXeroProfitAndLoss(...); if (isError) return
FetchActual ==
    /\ pc = "start"
    /\ \E resp \in ActualResponses :
        /\ actualResp' = resp
        /\ IF resp.isError
           THEN /\ reply' = ErrorReply(<<"a", "c", "t", "u", "a", "l", "s">>, resp.error)
                /\ pc' = "failed"
           ELSE /\ reply' = reply
                /\ pc' = IF rev = "decumulate" THEN "extractActual" ELSE "fetchBudget"
    /\ UNCHANGED <<rev, input, output, args, budgetResp>>

\* Mutant: the Header row is taken off the fetched report while extracting.
ExtractActual_ShiftsHeader ==
    /\ pc = "extractActual"
    /\ output' = actualPeriodValues(SumRows(getSectionRows(actualReport, args.metric.s)))
    /\ actualResp' = [actualResp EXCEPT !.result.rows =
                          SelectSeq(@, LAMBDA r : r.rowType # "Header")]
    /\ pc' = "fetchBudget"
    /\ UNCHANGED <<rev, input, args, budgetResp, reply>>

\* "decumulate" revision: the actual values are extracted and de-cumulated
\* before the budget is fetched.
ExtractActual ==
    /\ pc = "extractActual"
    /\ output' = actualPeriodValues(SumRows(getSectionRows(actualReport, args.metric.s)))
    /\ pc' = "fetchBudget"
    /\ UNCHANGED <<rev, input, args, actualResp, budgetResp, reply>>

\* const budgetResp = await listXeroBudgetSummary(...); if (isError) return
FetchBudget ==
    /\ pc = "fetchBudget"
    /\ \E resp \in BudgetResponses :
        /\ budgetResp' = resp
        /\ IF resp.isError
           THEN /\ reply' = ErrorReply(<<"b", "u", "d", "g", "e", "t">>, resp.error)
                /\ pc' = "failed"
           ELSE /\ reply' = reply
                /\ pc' = "compute"
    /\ UNCHANGED <<rev, input, output, args, actualResp>>

ComputeSummary ==
    /\ pc = "compute" /\ rev = "summary"
    /\ reply' = [kind |-> "comparison",
                 records |-> JsonRecords(comparison(
                     extractSummaryPeriodValues(actualReport, args.metric.s),
                     extractSummaryPeriodValues(budgetReport, args.metric.s)))]
    /\ pc' = "done"
    /\ UNCHANGED <<rev, input, output, args, actualResp, budgetResp>>

ComputeRowLabel ==
    /\ pc = "compute" /\ rev = "rowlabel"
    /\ reply' = [kind |-> "comparison",
                 records |-> JsonRecords(comparison(
                     extractRowLabelPeriodValues(actualReport, args.metric.s),
                     extractRowLabelPeriodValues(budgetReport, args.metric.s)))]
    /\ pc' = "done"
    /\ UNCHANGED <<rev, input, output, args, actualResp, budgetResp>>

ComputeDecumulate ==
    /\ pc = "compute" /\ rev = "decumulate"
    /\ reply' = [kind |-> "comparison",
                 records |-> decumulateResult(actualReport, output,
                                SumRows(getSectionRows(budgetReport, args.metric.s)))]
    /\ pc' = "done"
    /\ UNCHANGED <<rev, input, output, args, actualResp, budgetResp>>

ComputeRaw ==
    /\ pc = "compute" /\ rev = "raw"
    /\ reply' = IF budgetReport = Null
                THEN [kind |-> "raw", actual |-> actualReport]
                ELSE [kind |-> "raw", actual |-> actualReport, budgeted |-> budgetReport]
    /\ pc' = "done"
    /\ UNCHANGED <<rev, input, output, args, actualResp, budgetResp>>

ComputeSections ==
    /\ pc = "compute" /\ rev = "sections"
    /\ LET actualTitles == listSectionTitles(ReportRows(actualReport))
           budgetTitles == listSectionTitles(ReportRows(budgetReport))
           filter == IF IsAllMetric(args.metric)
                     THEN Dedup(actualTitles \o budgetTitles)
                     ELSE sectionFilter(actualTitles, budgetTitles, args.metric.s)
       IN  IF ~IsAllMetric(args.metric) /\ filter = <<>>
           THEN /\ reply' = [kind |-> "sectionNotFound", metric |-> args.metric,
                             actualTitles |-> actualTitles,
                             budgetTitles |-> budgetTitles]
                /\ pc' = "failed"
           ELSE /\ reply' = [kind |-> "sections",
                             result |-> sectionsResult(actualReport, budgetReport, filter)]
                /\ pc' = "done"
    /\ UNCHANGED <<rev, input, output, args, actualResp, budgetResp>>

Next ==
    \/ FetchActual
    \/ ExtractActual
    \/ FetchBudget
    \/ ComputeSummary
    \/ ComputeRowLabel
    \/ ComputeDecumulate
    \/ ComputeRaw
    \/ ComputeSections

Spec == Init /\ [][Next]_vars

(***************************************************************************)
(* Claims about one invocation of the tool.                                *)
(***************************************************************************)
Finished == pc \in {"done", "failed"}
BothFetched ==
    /\ actualResp # None /\ ~actualResp.isError
    /\ budgetResp # None /\ ~budgetResp.isError

\* The comparison records of the reply, of whatever revision.
ReplyRecords ==
    IF reply = None THEN {}
    ELSE IF reply.kind = "comparison"
    THEN {reply.records[i] : i \in 1..Len(reply.records)}
    ELSE IF reply.kind = "sections"
    THEN UNION {{reply.result[k][2][i] : i \in 1..Len(reply.result[k][2])} :
                    k \in 1..Len(reply.result)}
    ELSE {}

\* C3: where the actual series is de-cumulated, the budget series is not:
\* every budget value of the reply is the value extracted for that period
\* from the budget report, and every actual value is the de-cumulated one.
C3_BudgetNotDecumulated ==
    (pc = "done" /\ rev = "decumulate") =>
        LET budgetValues == SumRows(getSectionRows(budgetReport, args.metric.s))
            cumulative == SumRows(getSectionRows(actualReport, args.metric.s))
        IN  \A i \in 1..Len(reply.records) :
                /\ reply.records[i].budgeted = ToJson(AtOrNull(budgetValues, i))
                /\ reply.records[i].actual =
                       ToJson(AtOrNull(actualPeriodValues(cumulative), i))

\* A reply whose third record has the actual 3 - 1 and the budget 3 as
\* extracted, not 3 - 1.
C3_Witness ==
    /\ pc = "done" /\ rev = "decumulate"
    /\ Len(reply.records) = 3
    /\ reply.records[3].actual = Num(2)
    /\ reply.records[3].budgeted = Num(3)
    /\ reply.records[2].budgeted = Num(1)

NumberOrNull(v) == IsNum(v) \/ v = Null

PresentTitles == listSectionTitles(ReportRows(actualReport)) \o
                 listSectionTitles(ReportRows(budgetReport))

\* A metric is requested, there are section titles, and none equals,
\* contains or is contained in the metric.
NoTitleMatches ==
    /\ ~IsAllMetric(args.metric)
    /\ PresentTitles # <<>>
    /\ \A i \in 1..Len(PresentTitles) :
        /\ ~includes(Normal(PresentTitles[i]), Normal(args.metric.s))
           /\ ~includes(Normal(args.metric.s), Normal(PresentTitles[i]))

\* C9: when both reports are fetched and the requested metric matches no
\* section title, the invocation ends in a SectionNotFound failure that
\* lists every section title present, never in a comparison.
C9_SectionNotFound ==
    (Finished /\ BothFetched /\ NoTitleMatches
       /\ rev \in {"summary", "decumulate", "sections"}) =>
        /\ reply.kind = "sectionNotFound"
        /\ reply.actualTitles = listSectionTitles(ReportRows(actualReport))
        /\ reply.budgetTitles = listSectionTitles(ReportRows(budgetReport))

\* The metric is the sentinel ALL, in any letter case, or *.
IsSentinel(metric) ==
    /\ IsStr(metric)
    /\ \/ toUpperCase(trim(metric.s)) = <<"A", "L", "L">>
       \/ trim(metric.s) = <<"*">>

C11_WitnessNoSections ==
    /\ pc = "done" /\ rev = "sections"
    /\ args.metric = Str(<<"*">>)
    /\ PresentTitles = <<>>
    /\ reply = [kind |-> "sections", result |-> <<>>]

\* The section rows of the actual report that match the metric, as the
\* revision at hand matches titles.
MatchingActualSections ==
    LET rows == ReportRows(actualReport)
    IN  {k \in 1..Len(rows) :
            /\ rows[k].rowType = "Section" /\ IsStr(rows[k].title)
            /\ IF rev = "sections"
               THEN MatchesMetric(rows[k].title.s, args.metric.s)
               ELSE includes(toLowerCase(rows[k].title.s), toLowerCase(args.metric.s))}

\* The values of section k of the actual report are in the reply.
SectionInReply(k) ==
    LET section == ReportRows(actualReport)[k]
    IN  IF rev = "sections"
        THEN /\ HasKey(reply.result, section.title.s)
             /\ LET arr == Get(reply.result, section.title.s)
                    values == extractPeriodValues(section)
                IN  /\ Len(arr) >= Len(values)
                    /\ \A i \in 1..Len(values) : arr[i].actual = values[i]
        ELSE LET values == extractSummaryPeriodValues([rows |-> <<section>>], args.metric.s)
             IN  \A j \in 1..Len(values) :
                    \E i \in 1..Len(reply.records) :
                        /\ reply.records[i].period = values[j][1]
                        /\ reply.records[i].actual = ToJson(values[j][2])

\* C12: when several sections match the metric, each of them is in the
\* reply; none is dropped in favour of the first match.
C12_AllMatchesReturned ==
    (/\ pc = "done" /\ BothFetched /\ rev \in {"summary", "sections"}
     /\ ~IsAllMetric(args.metric))
    => \A k \in MatchingActualSections : SectionInReply(k)

\* The stage the invocation is in: the stage of the operation it runs next.
StageRank ==
    CASE pc = "start" -> 1             \* Fetching (actual)
      [] pc = "fetchBudget" -> 1       \* Fetching (budget)
      [] pc = "extractActual" -> 2     \* Resolving, Extracting (actual)
      [] pc = "compute" -> 2           \* Resolving, Extracting, Aligning
      [] pc = "done" -> 5
      [] pc = "failed" -> 6

\* C13 (order and terminal part): the stages are passed in the order
\* Fetching, Resolving, Extracting, Aligning, Done, never returning to an
\* earlier one; a failure leads directly to Failed; after Done or Failed no
\* stage runs and no fetch is issued.
C13_StagesInOrder ==
    [][/\ StageRank' >= StageRank
       /\ pc \in {"done", "failed"} => UNCHANGED vars
       /\ (reply' # reply /\ reply'.kind \in {"error", "sectionNotFound"}) => pc' = "failed"]_vars

\* C14: when a fetch reports failure the invocation ends in failure, nothing
\* has been resolved, extracted or de-cumulated from the other fetch's
\* result, and the reply holds no comparison record.
C14_FailFast ==
    ((actualResp # None /\ actualResp.isError) \/ (budgetResp # None /\ budgetResp.isError))
    => /\ pc = "failed"
       /\ reply.kind = "error"
       /\ ReplyRecords = {}
       /\ output = None

\* s ends with t.
EndsWith(s, t) ==
    Len(s) >= Len(t) /\ SubSeq(s, Len(s) - Len(t) + 1, Len(s)) = t

\* C15: a fetch that fails is reported to the caller with its own error
\* message, unchanged, inside the reply, and each of the two fetches is
\* issued at most once in an invocation: a response, once received, is
\* never replaced.
C15_ErrorVerbatimNoRetry ==
    [][/\ (actualResp' # actualResp) => (actualResp = None /\ pc = "start")
       /\ (budgetResp' # budgetResp) => (budgetResp = None /\ pc = "fetchBudget")
       /\ (actualResp' # None /\ actualResp'.isError) =>
              /\ reply'.kind = "error"
              /\ EndsWith(reply'.text, actualResp'.error.s)
       /\ (budgetResp' # None /\ budgetResp'.isError) =>
              /\ reply'.kind = "error"
              /\ EndsWith(reply'.text, budgetResp'.error.s)]_vars

\* The budget fetch failed with the message 401 and the reply carries it.
C15_Witness ==
    /\ pc = "failed"
    /\ actualResp # None /\ ~actualResp.isError
    /\ budgetResp # None /\ budgetResp.isError
    /\ budgetResp.error = Str(<<"4", "0", "1">>)
    /\ reply.text = <<"E", "r", "r", "o", "r", " ", "f", "e", "t", "c", "h", "i", "n", "g", " ",
                      "b", "u", "d", "g", "e", "t", ":", " ", "4", "0", "1">>

(***************************************************************************)
(* The fetch handlers: every handler calls the backend inside try/catch    *)
(* and returns {result, isError, error}.                                   *)
(***************************************************************************)
\* An argument that is not given (undefined).
Absent == "undefined"
Timeframes == {"MONTH", "QUARTER", "YEAR"}
Flags == {"true", "false"}

\* A JavaScript array.
Arr(items) == [t |-> "array", items |-> items]

Response(result, isError, error) ==
    [result |-> result, isError |-> isError, error |-> error]

\* formatError(error): the message of what was thrown.
formatError(error) == error.message

\* reports?.[0] ?? null
FirstReport(reports) ==
    IF reports = Null \/ reports.items = <<>> THEN Null ELSE reports.items[1]

\* reports ?? []
ReportsOrEmpty(reports) == IF reports = Null THEN Arr(<<>>) ELSE reports

\* fetchProfitAndLoss: the request getReportProfitAndLoss receives.
fetchProfitAndLoss(periods, timeframe, standardLayout, paymentsOnly) ==
    [api |-> "getReportProfitAndLoss", periods |-> periods, timeframe |-> timeframe,
     standardLayout |-> standardLayout, paymentsOnly |-> paymentsOnly]

\* Mutant: the handler answers isError false with a null result when the
\* backend has no report.
listXeroProfitAndLoss_NullResult(a, backend) ==
    [request |-> IF backend.kind = "authThrows" THEN None
                 ELSE fetchProfitAndLoss(a.periods, a.timeframe, a.paymentsOnly, Absent),
     response |->
        IF backend.kind \in {"authThrows", "apiThrows"}
        THEN Response(Null, TRUE, formatError(backend.error))
        ELSE Response(FirstReport(backend.reports), FALSE, Null)]

\* listXeroProfitAndLoss(fromDate, toDate, periods, timeframe, standardLayout,
\* paymentsOnly): it calls fetchProfitAndLoss(fromDate, toDate, periods,
\* timeframe, paymentsOnly), five arguments for six parameters.
listXeroProfitAndLoss(a, backend) ==
    [request |-> IF backend.kind = "authThrows" THEN None
                 ELSE fetchProfitAndLoss(a.periods, a.timeframe, a.paymentsOnly, Absent),
     response |->
        IF backend.kind \in {"authThrows", "apiThrows"}
        THEN Response(Null, TRUE, formatError(backend.error))
        ELSE IF FirstReport(backend.reports) = Null
        THEN Response(Null, TRUE, Str(<<"F", "a", "i", "l", "e", "d", " ", "t", "o", " ", "f", "e", "t", "c", "h", " ", "p", "r", "o", "f", "i", "t", " ", "a", "n", "d", " ", "l", "o", "s", "s", " ", "d", "a", "t", "a", " ", "f", "r", "o", "m", " ", "X", "e", "r", "o", ".">>))
        ELSE Response(FirstReport(backend.reports), FALSE, Null)]

\* listXeroBudgetSummary(date, periods = 1, timeframe = "MONTH")
listXeroBudgetSummary(a, backend) ==
    [request |-> IF backend.kind = "authThrows" THEN None
                 ELSE [api |-> "getReportBudgetSummary",
                       periods |-> IF a.periods = Null THEN Num(1) ELSE a.periods,
                       timeframeNumber |->
                           IF (IF a.timeframe = Absent THEN "MONTH" ELSE a.timeframe) = "YEAR"
                           THEN 2 ELSE 1],
     response |->
        IF backend.kind \in {"authThrows", "apiThrows"}
        THEN Response(Null, TRUE, formatError(backend.error))
        ELSE Response(ReportsOrEmpty(backend.reports), FALSE, Null)]

\* listXeroBudgets()
listXeroBudgets(a, backend) ==
    [request |-> IF backend.kind = "authThrows" THEN None ELSE [api |-> "getBudgets"],
     response |->
        IF backend.kind \in {"authThrows", "apiThrows"}
        THEN Response(Null, TRUE, formatError(backend.error))
        ELSE Response(ReportsOrEmpty(backend.reports), FALSE, Null)]

\* listXeroAgedReceivables(contactId, reportDate, ...): the overdue invoices
\* (a due date, before the report date) become the rows of the report.
listXeroAgedReceivables(a, backend) ==
    [request |-> IF backend.kind = "authThrows" THEN None
                 ELSE [api |-> "getInvoices", contactId |-> a.contactId],
     response |->
        IF backend.kind \in {"authThrows", "apiThrows"}
        THEN Response(Null, TRUE, formatError(backend.error))
        ELSE Response([reportName |-> "Aged Debtors - Overdue Invoices",
                       reportDate |-> a.reportDate,
                       rows |-> SelectSeq(backend.reports.items,
                                   LAMBDA inv : inv.dueDate # 0 /\ inv.dueDate < a.reportDate)],
                      FALSE, Null)]

(***************************************************************************)
(* Specification of the handlers alone: one call of a handler, with the    *)
(* arguments and the behaviour of the backend drawn.                       *)
(***************************************************************************)
Handlers == {"listXeroProfitAndLoss", "listXeroBudgetSummary",
             "listXeroBudgets", "listXeroAgedReceivables"}

ThrownErrors == {[message |-> m] : m \in ErrorMessages}
BackendThrows == {[kind |-> k, error |-> e] : k \in {"authThrows", "apiThrows"}, e \in ThrownErrors}
BackendReturns(bodies) == {[kind |-> "returns", reports |-> b] : b \in bodies}

Invoices == {[dueDate |-> d] : d \in 0..3}

HandlerArgs(handler) ==
    CASE handler = "listXeroProfitAndLoss" ->
            [periods : {Null, Num(2)}, timeframe : Timeframes \cup {Absent},
             standardLayout : Flags \cup {Absent}, paymentsOnly : Flags \cup {Absent}]
      [] handler = "listXeroBudgetSummary" ->
            [periods : {Null, Num(2)}, timeframe : {"MONTH", "YEAR", Absent}]
      [] handler = "listXeroBudgets" -> [periods : {Null}]
      [] handler = "listXeroAgedReceivables" ->
            [contactId : {Absent, "c1"}, reportDate : {2, 3}]

HandlerBackends(handler) ==
    BackendThrows \cup
    IF handler = "listXeroAgedReceivables"
    THEN BackendReturns({Arr(invs) : invs \in SeqsUpTo(Invoices, MaxRows)})
    ELSE BackendReturns({Null, Arr(<<>>), Arr(<<[rows |-> <<>>]>>)})

InitHandler ==
    /\ pc = "start"
    /\ rev \in Handlers
    /\ args \in HandlerArgs(rev)
    /\ input \in HandlerBackends(rev)
    /\ output = None /\ reply = None
    /\ actualResp = None /\ budgetResp = None

\* What a call leaves: the request the backend received and the response.
Returns(call) ==
    /\ output' = call.request
    /\ reply' = call.response
    /\ pc' = "done"
    /\ UNCHANGED <<rev, input, args, actualResp, budgetResp>>

CallProfitAndLoss ==
    pc = "start" /\ rev = "listXeroProfitAndLoss" /\ Returns(listXeroProfitAndLoss(args, input))

CallBudgetSummary ==
    pc = "start" /\ rev = "listXeroBudgetSummary" /\ Returns(listXeroBudgetSummary(args, input))

CallBudgets ==
    pc = "start" /\ rev = "listXeroBudgets" /\ Returns(listXeroBudgets(args, input))

CallAgedReceivables ==
    pc = "start" /\ rev = "listXeroAgedReceivables"
    /\ Returns(listXeroAgedReceivables(args, input))

NextHandler ==
    \/ CallProfitAndLoss
    \/ CallBudgetSummary
    \/ CallBudgets
    \/ CallAgedReceivables

SpecHandler == InitHandler /\ [][NextHandler]_vars

\* C16: every handler call returns a response {result, isError, error} in
\* which isError is true exactly when result is null and exactly when error
\* is not null, whether the backend answered, threw or had no report.
C16_TaggedResponse ==
    pc = "done" =>
        /\ DOMAIN reply = {"result", "isError", "error"}
        /\ reply.isError \in BOOLEAN
        /\ reply.isError <=> (reply.result = Null)
        /\ reply.isError <=> (reply.error # Null)

\* The backend answers the profit and loss request with no report: the
\* handler returns a failure with a message and no result.
C16_Witness ==
    /\ pc = "done" /\ rev = "listXeroProfitAndLoss"
    /\ input.kind = "returns" /\ input.reports = Arr(<<>>)
    /\ reply.isError /\ reply.result = Null /\ IsStr(reply.error)

\* C19: the standardLayout and paymentsOnly given to listXeroProfitAndLoss
\* are the standardLayout and paymentsOnly of the request the backend
\* receives, for every combination of true, false and absent.
C19_FlagsReachBackend ==
    (pc = "done" /\ rev = "listXeroProfitAndLoss" /\ output # None) =>
        /\ output.standardLayout = args.standardLayout
        /\ output.paymentsOnly = args.paymentsOnly

(***************************************************************************)
(* Specification of the two fetches of an invocation: the tool's arguments *)
(* and the backend's behaviour are drawn; the calls the tool issues and    *)
(* the requests the backend receives are recorded in output.               *)
(***************************************************************************)
\* const timeframe = args.timeframe || "MONTH"; the "raw" revision then
\* replaces QUARTER by MONTH.
toolTimeframe(revision, a) ==
    LET timeframe == IF a.timeframe = Absent THEN "MONTH" ELSE a.timeframe
    IN  IF revision = "raw" /\ timeframe = "QUARTER" THEN "MONTH" ELSE timeframe

\* Mutant: the budget fetch is given the requested timeframe as it is.
budgetTimeframe_AsRequested(revision, a) ==
    IF a.timeframe = Absent THEN "MONTH" ELSE a.timeframe

\* timeframe === "YEAR" ? "YEAR" : "MONTH"
budgetTimeframe(revision, a) ==
    LET timeframe == IF a.timeframe = Absent THEN "MONTH" ELSE a.timeframe
    IN  IF timeframe = "YEAR" THEN "YEAR" ELSE "MONTH"

ToolArgs ==
    [periods : {Num(1), Num(2)}, timeframe : Timeframes \cup {Absent},
     standardLayout : Flags \cup {Absent}, paymentsOnly : Flags \cup {Absent}]

FetchBackends == BackendThrows \cup BackendReturns({Null, Arr(<<>>), Arr(<<[rows |-> <<>>]>>)})

InitFetch ==
    /\ pc = "start"
    /\ rev \in Revisions
    /\ args \in ToolArgs
    /\ input \in [actual : FetchBackends, budget : FetchBackends]
    /\ output = <<>>
    /\ actualResp = None /\ budgetResp = None /\ reply = None

\* await listXeroProfitAndLoss(fromDate, toDate, periods, timeframe,
\*                             args.standardLayout, args.paymentsOnly)
IssueActualFetch ==
    /\ pc = "start"
    /\ LET a == [periods |-> args.periods, timeframe |-> toolTimeframe(rev, args),
                 standardLayout |-> args.standardLayout,
                 paymentsOnly |-> args.paymentsOnly]
           call == listXeroProfitAndLoss(a, input.actual)
       IN  /\ output' = Append(output, [handler |-> "listXeroProfitAndLoss",
                                        args |-> a, request |-> call.request])
           /\ actualResp' = call.response
           /\ pc' = IF call.response.isError THEN "failed" ELSE "fetchBudget"
    /\ UNCHANGED <<rev, input, args, budgetResp, reply>>

\* await listXeroBudgetSummary(fromDate, periods, timeframe === "YEAR" ? "YEAR" : "MONTH")
IssueBudgetFetch ==
    /\ pc = "fetchBudget"
    /\ LET a == [periods |-> args.periods, timeframe |-> budgetTimeframe(rev, args)]
           call == listXeroBudgetSummary(a, input.budget)
       IN  /\ output' = Append(output, [handler |-> "listXeroBudgetSummary",
                                        args |-> a, request |-> call.request])
           /\ budgetResp' = call.response
           /\ pc' = IF call.response.isError THEN "failed" ELSE "compute"
    /\ UNCHANGED <<rev, input, args, actualResp, reply>>

NextFetch ==
    \/ IssueActualFetch
    \/ IssueBudgetFetch

SpecFetch == InitFetch /\ [][NextFetch]_vars

\* The calls of the budget fetch issued so far.
BudgetCalls == SelectSeq(output, LAMBDA c : c.handler = "listXeroBudgetSummary")

\* C18: the budget fetch is issued with timeframe MONTH or YEAR, never
\* QUARTER: YEAR exactly when the requested timeframe is YEAR, MONTH when
\* it is MONTH, QUARTER or absent.
C18_BudgetTimeframe ==
    \A i \in 1..Len(BudgetCalls) :
        /\ BudgetCalls[i].args.timeframe \in {"MONTH", "YEAR"}
        /\ BudgetCalls[i].args.timeframe = "YEAR" <=> args.timeframe = "YEAR"
        /\ BudgetCalls[i].request # None =>
              BudgetCalls[i].request.timeframeNumber =
                  IF args.timeframe = "YEAR" THEN 2 ELSE 1

\* A QUARTER request whose budget fetch was issued with MONTH.
C18_Witness ==
    /\ args.timeframe = "QUARTER"
    /\ Len(BudgetCalls) = 1
    /\ BudgetCalls[1].args.timeframe = "MONTH"

\* C17: no step of the comparison modifies a fetched report: from the
\* moment a report is fetched, the actual and the budget report stay what
\* the fetch returned, through every later step of the invocation.
C17_ReportsReadOnly ==
    [][/\ actualResp # None => actualResp' = actualResp
       /\ budgetResp # None => budgetResp' = budgetResp]_vars

\* A finished invocation of the de-cumulating revision that produced records
\* from an actual report with a Header row and a section.
C17_Witness ==
    /\ pc = "done" /\ rev = "decumulate"
    /\ Len(ReportRows(actualReport)) = 2
    /\ ReportRows(actualReport)[1].rowType = "Header"
    /\ budgetReport # Null
    /\ Len(reply.records) = 3 /\ reply.records[3].actual = Num(2)
    /\ reply.records[3].budgeted = Null

(***************************************************************************)
(* The create-invoice tool: the contact is the given contactId, or the one *)
(* contact found by e-mail; then the invoice is created.                   *)
(***************************************************************************)
\* Mutant: with several contacts found, the first one is used.
resolveContact_FirstOfSeveral(params, contactsResponse) ==
    IF Truthy(params.contactEmail) /\ ~Truthy(params.contactId)
    THEN IF contactsResponse.isError
         THEN [reply |-> [kind |-> "lookupError", error |-> contactsResponse.error],
               finalContactId |-> params.contactId]
         ELSE IF contactsResponse.result = Null \/ Len(contactsResponse.result.items) = 0
         THEN [reply |-> [kind |-> "noContacts", email |-> params.contactEmail],
               finalContactId |-> params.contactId]
         ELSE [reply |-> None,
               finalContactId |-> contactsResponse.result.items[1].contactID]
    ELSE [reply |-> None, finalContactId |-> params.contactId]

\* Lines 57-121 of the tool: finalContactId, or the reply that ends the
\* invocation before any invoice is created.
resolveContact(params, contactsResponse) ==
    IF Truthy(params.contactEmail) /\ ~Truthy(params.contactId)
    THEN IF contactsResponse.isError
         THEN [reply |-> [kind |-> "lookupError", error |-> contactsResponse.error],
               finalContactId |-> params.contactId]
         ELSE IF contactsResponse.result = Null \/ Len(contactsResponse.result.items) = 0
         THEN [reply |-> [kind |-> "noContacts", email |-> params.contactEmail],
               finalContactId |-> params.contactId]
         ELSE IF Len(contactsResponse.result.items) = 1
         THEN [reply |-> None,
               finalContactId |-> contactsResponse.result.items[1].contactID]
         ELSE [reply |-> [kind |-> "multipleContacts", email |-> params.contactEmail,
                          contacts |-> contactsResponse.result.items],
               finalContactId |-> params.contactId]
    ELSE [reply |-> None, finalContactId |-> params.contactId]

Contacts == {[contactID |-> Str(<<"c", "1">>)], [contactID |-> Str(<<"c", "2">>)]}
Invoice == [invoiceID : {Null, Str(<<"i", "1">>)}]

InvoiceParams ==
    [contactId : {Null, Str(<<>>), Str(<<"c", "9">>)},
     contactEmail : {Null, Str(<<"a", "@", "b">>)},
     type : {"ACCREC", "ACCPAY"}]

\* What listContactsByEmail and createXeroInvoice may answer.
LookupResponses ==
    {Response(Arr(cs), FALSE, Null) : cs \in SeqsUpTo(Contacts, MaxPairs)}
    \cup {Response(Null, TRUE, m) : m \in ErrorMessages}
CreateResponses ==
    {Response(inv, FALSE, Null) : inv \in Invoice}
    \cup {Response(Null, TRUE, m) : m \in ErrorMessages}

InitInvoice ==
    /\ pc = "start"
    /\ rev = "create-invoice"
    /\ args \in InvoiceParams
    /\ input \in [lookup : LookupResponses, create : CreateResponses]
    /\ output = [calls |-> <<>>, finalContactId |-> Null]
    /\ reply = None
    /\ actualResp = None /\ budgetResp = None

\* if (contactEmail && !contactId) { await listContactsByEmail(contactEmail) ... }
\* if (!finalContactId) return "Either contactId or contactEmail must be provided."
ResolveContact ==
    /\ pc = "start"
    /\ LET lookup == Truthy(args.contactEmail) /\ ~Truthy(args.contactId)
           r == resolveContact(args, input.lookup)
           calls == IF lookup
                    THEN <<[api |-> "listContactsByEmail", email |-> args.contactEmail]>>
                    ELSE <<>>
       IN  /\ output' = [calls |-> calls, finalContactId |-> r.finalContactId]
           /\ IF r.reply # None
              THEN reply' = r.reply /\ pc' = "failed"
              ELSE IF ~Truthy(r.finalContactId)
              THEN reply' = [kind |-> "contactRequired"] /\ pc' = "failed"
              ELSE reply' = reply /\ pc' = "create"
    /\ UNCHANGED <<rev, input, args, actualResp, budgetResp>>

\* const result = await createXeroInvoice(finalContactId, lineItems, type, reference)
CreateInvoice ==
    /\ pc = "create"
    /\ output' = [output EXCEPT !.calls =
                     Append(@, [api |-> "createXeroInvoice",
                                contactId |-> output.finalContactId,
                                type |-> args.type])]
    /\ IF input.create.isError
       THEN /\ reply' = [kind |-> "createError", error |-> input.create.error]
            /\ pc' = "failed"
       ELSE /\ reply' = [kind |-> "created", invoice |-> input.create.result,
                         link |-> Truthy(input.create.result.invoiceID)]
            /\ pc' = "done"
    /\ UNCHANGED <<rev, input, args, actualResp, budgetResp>>

NextInvoice ==
    \/ ResolveContact
    \/ CreateInvoice

SpecInvoice == InitInvoice /\ [][NextInvoice]_vars

\* The calls of createXeroInvoice issued so far.
CreateCalls == SelectSeq(output.calls, LAMBDA c : c.api = "createXeroInvoice")

OnlyEmailGiven == Truthy(args.contactEmail) /\ ~Truthy(args.contactId)
FoundContacts == IF input.lookup.isError THEN <<>> ELSE input.lookup.result.items

\* C20: the invoice creation is called at most once and only with a
\* determined contact; when only contactEmail is given, it is called exactly
\* when the lookup succeeds with exactly one contact, with that contact's
\* id; with no contact, several contacts, a failed lookup, or neither
\* contactId nor contactEmail, it is not called and a message is the reply.
C20_SingleDeterminedContact ==
    /\ Len(CreateCalls) <= 1
    /\ \A i \in 1..Len(CreateCalls) : Truthy(CreateCalls[i].contactId)
    /\ pc \in {"create", "done", "failed"} =>
        /\ OnlyEmailGiven =>
            /\ (pc = "create" \/ Len(CreateCalls) = 1)
                   <=> (~input.lookup.isError /\ Len(FoundContacts) = 1)
            /\ \A i \in 1..Len(CreateCalls) :
                   CreateCalls[i].contactId = FoundContacts[1].contactID
        /\ (OnlyEmailGiven /\ input.lookup.isError) => reply.kind = "lookupError"
        /\ (OnlyEmailGiven /\ ~input.lookup.isError /\ Len(FoundContacts) = 0)
               => reply.kind = "noContacts"
        /\ (OnlyEmailGiven /\ Len(FoundContacts) > 1) => reply.kind = "multipleContacts"
        /\ (~Truthy(args.contactEmail) /\ ~Truthy(args.contactId))
               => (CreateCalls = <<>> /\ reply.kind = "contactRequired")
        /\ Truthy(args.contactId) =>
               \A i \in 1..Len(CreateCalls) : CreateCalls[i].contactId = args.contactId

\* Only the e-mail is given, the lookup finds the one contact c1 and the
\* invoice is created for c1.
C20_Witness ==
    /\ pc = "done" /\ OnlyEmailGiven
    /\ Len(FoundContacts) = 1
    /\ Len(CreateCalls) = 1
    /\ CreateCalls[1].contactId = Str(<<"c", "1">>)
    /\ reply.kind = "created"

(***************************************************************************)
(* Reports whose arrays are missing or are not arrays.  The value of a     *)
(* `rows` or `cells` property is an array, undefined (Null) or some other  *)
(* truthy value (Obj); a report is read as each revision reads it, and a   *)
(* method call on a value that has no such method raises a TypeError.      *)
(***************************************************************************)
Obj == [t |-> "object"]
IsArray(v) == v.t = "array"

\* The elements of an array, none for any other value.
ItemsOf(v) == IF IsArray(v) THEN v.items ELSE <<>>

ShapedRow(rowType, cells) == [rowType |-> rowType, title |-> Null, cells |-> cells, rows |-> Null]
ShapedSection(title, rows) == [rowType |-> "Section", title |-> Str(title), cells |-> Null, rows |-> rows]

\* The report with every value that is not an array read as an empty array.
PlainRow(row) ==
    [rowType |-> row.rowType, title |-> row.title, cells |-> ItemsOf(row.cells),
     rows |-> [i \in 1..Len(ItemsOf(row.rows)) |->
                  Row(ItemsOf(row.rows)[i].rowType, ItemsOf(ItemsOf(row.rows)[i].cells))]]
PlainReport(report) ==
    IF report = Null THEN Null
    ELSE [rows |-> [i \in 1..Len(ItemsOf(report.rows)) |-> PlainRow(ItemsOf(report.rows)[i])]]

\* "decumulate" revision, getSectionRows and getBudgetSectionRows:
\* report.rows.find and section.rows.filter are called on any truthy value.
getSectionRowsRaises(report, metric) ==
    /\ report # Null
    /\ \/ report.rows = Obj
       \/ LET rows == ItemsOf(report.rows)
              k == FindSectionEqual(rows, metric)
          IN  k # 0 /\ rows[k].rows = Obj

\* "decumulate" revision, getPeriodValues: row.cells?.map is called on any
\* value but undefined and null, for every Row of the section.
getPeriodValuesRaises(report, metric) ==
    /\ report # Null
    /\ ~getSectionRowsRaises(report, metric)
    /\ LET rows == ItemsOf(report.rows)
           k == FindSectionEqual(rows, metric)
       IN  /\ k # 0
           /\ \E i \in 1..Len(ItemsOf(rows[k].rows)) :
                 /\ ItemsOf(rows[k].rows)[i].rowType = "Row"
                 /\ ItemsOf(rows[k].rows)[i].cells = Obj

\* "decumulate" revision, the period labels: headerRow.cells.map is called
\* on any truthy cells of the Header row of a report with some row.
periodsArrRaises(report) ==
    LET rows == ItemsOf(report.rows)
        h == FirstOf({i \in 1..Len(rows) : rows[i].rowType = "Header"})
    IN  h # 0 /\ rows[h].cells = Obj

\* "sections" revision: (report?.rows || []).find is called once per title
\* kept, on any truthy rows.
sectionFindRaises(report, filter) ==
    filter # <<>> /\ report # Null /\ report.rows = Obj

ShapedCells == {Null, Obj, [t |-> "array", items |-> <<Str(<<"x">>), Num(1), Num(3)>>]}
ShapedRows == {ShapedRow("Row", cells) : cells \in ShapedCells}
ShapedRowLists ==
    {Null, Obj} \cup {[t |-> "array", items |-> rows] : rows \in SeqsUpTo(ShapedRows, MaxRows)}
ShapedSections == {ShapedSection(<<"a", "b">>, rows) : rows \in ShapedRowLists}
ShapedHeaders == {<<>>} \cup {<<ShapedRow("Header", cells)>> : cells \in
    {Null, Obj, [t |-> "array", items |-> <<Str(<<>>), Str(<<"p", "1">>), Str(<<"p", "2">>)>>]}}
ShapedActualReports ==
    {[rows |-> Null], [rows |-> Obj]} \cup
    {[rows |-> [t |-> "array", items |-> h \o secs]] :
        h \in ShapedHeaders, secs \in SeqsUpTo(ShapedSections, 1)}
ShapedBudgetReports ==
    {Null, [rows |-> Null], [rows |-> Obj]} \cup
    {[rows |-> [t |-> "array", items |-> <<ShapedSection(<<"a", "b">>, rows)>>]] :
        rows \in {Null, Obj} \cup
                 {[t |-> "array", items |-> <<r>>] : r \in ShapedRows}}

Raised == [kind |-> "raised", error |-> "TypeError"]

InitShaped ==
    /\ pc = "compute"
    /\ rev \in {"decumulate", "sections"}
    /\ args \in [metric : {Str(<<"a", "b">>), Str(<<"z">>)} \cup
                          (IF rev = "sections" THEN {Null} ELSE {})]
    /\ input \in [actual : ShapedActualReports, budget : ShapedBudgetReports]
    /\ reply = None /\ output = None
    /\ actualResp = None /\ budgetResp = None

\* "decumulate" revision from the fetched reports on.
ComputeShapedDecumulate ==
    /\ pc = "compute" /\ rev = "decumulate"
    /\ LET metric == args.metric.s
           actual == PlainReport(input.actual)
           budget == PlainReport(input.budget)
           values == actualPeriodValues(SumRows(getSectionRows(actual, metric)))
       IN  IF \/ getSectionRowsRaises(input.actual, metric)
              \/ getPeriodValuesRaises(input.actual, metric)
              \/ getSectionRowsRaises(input.budget, metric)
              \/ getPeriodValuesRaises(input.budget, metric)
              \/ periodsArrRaises(input.actual)
           THEN reply' = Raised /\ pc' = "failed"
           ELSE /\ reply' = [kind |-> "comparison",
                             records |-> decumulateResult(actual, values,
                                            SumRows(getSectionRows(budget, metric)))]
                /\ pc' = "done"
    /\ UNCHANGED <<rev, input, output, args, actualResp, budgetResp>>

\* "sections" revision from the fetched reports on.
ComputeShapedSections ==
    /\ pc = "compute" /\ rev = "sections"
    /\ LET actual == PlainReport(input.actual)
           budget == PlainReport(input.budget)
           actualTitles == listSectionTitles(ReportRows(actual))
           budgetTitles == listSectionTitles(ReportRows(budget))
           filter == IF IsAllMetric(args.metric)
                     THEN Dedup(actualTitles \o budgetTitles)
                     ELSE sectionFilter(actualTitles, budgetTitles, args.metric.s)
       IN  IF ~IsAllMetric(args.metric) /\ filter = <<>>
           THEN /\ reply' = [kind |-> "sectionNotFound", metric |-> args.metric,
                             actualTitles |-> actualTitles,
                             budgetTitles |-> budgetTitles]
                /\ pc' = "failed"
           ELSE IF sectionFindRaises(input.actual, filter) \/ sectionFindRaises(input.budget, filter)
           THEN reply' = Raised /\ pc' = "failed"
           ELSE /\ reply' = [kind |-> "sections",
                             result |-> sectionsResult(actual, budget, filter)]
                /\ pc' = "done"
    /\ UNCHANGED <<rev, input, output, args, actualResp, budgetResp>>

NextShaped == ComputeShapedDecumulate \/ ComputeShapedSections

SpecShaped == InitShaped /\ [][NextShaped]_vars

\* Some `rows` or `cells` value of the two reports, at any depth, is Obj.
HasNonArray(report) ==
    /\ report # Null
    /\ \/ report.rows = Obj
       \/ \E i \in 1..Len(ItemsOf(report.rows)) :
            LET row == ItemsOf(report.rows)[i]
            IN  \/ row.cells = Obj
                \/ row.rows = Obj
                \/ \E j \in 1..Len(ItemsOf(row.rows)) : ItemsOf(row.rows)[j].cells = Obj

\* C21: a report whose rows array, a section's rows array or a row's cells
\* array is missing or is not an array never makes the invocation raise: it
\* ends with a reply of its own, not with a raised failure.
C21_NeverRaises ==
    (pc \in {"done", "failed"}) => reply # Raised

\* The part of C21 the code keeps: with every array present or missing
\* (none replaced by another value) no invocation raises.
C21_MissingAbsorbed ==
    (pc \in {"done", "failed"} /\ ~HasNonArray(input.actual) /\ ~HasNonArray(input.budget))
        => reply # Raised

(***************************************************************************)
(* Row widths (under SpecExtract).                                         *)
(***************************************************************************)
\* The rows of the drawn section that have w cells.
RowsOfWidth(rows, w) == SelectSeq(rows, LAMBDA r : Len(r.cells) = w)

\* C22: a child row adds to the period sums exactly when it has M + 1 cells
\* (a label and M values) or M cells (values only); a row of any other
\* width adds to no period and does not change the length of the series.
\* M is the length of the series in the "sections" revision and the number
\* of period columns of the report in the "decumulate" revision.
C22_ContributesByWidth ==
    pc = "done" =>
        IF rev = "sections"
        THEN \A i \in 1..Len(output) :
                output[i] = Num(ClaimedSum(RowsOfWidth(InputRows, Len(output) + 1), i + 1)
                                + ClaimedSum(RowsOfWidth(InputRows, Len(output)), i))
        ELSE output = SumRows(SelectSeq(DataRowsOf(input.section),
                          LAMBDA r : Len(r.cells) \in {input.periodColumns,
                                                       input.periodColumns + 1}))

\* The half of C22 the "sections" revision keeps: the rows with one cell
\* more than the series is long, and no others, add to the sums.
C22_LabelledRowsOnly ==
    (pc = "done" /\ rev = "sections") =>
        \A i \in 1..Len(output) :
            output[i] = Num(ClaimedSum(RowsOfWidth(InputRows, Len(output) + 1), i + 1))

(***************************************************************************)
(* The label cell (under Spec).                                            *)
(***************************************************************************)
\* Every row has a number in its first value cell, the cell after the label.
NumericFirstValues(rows) ==
    /\ rows # <<>>
    /\ \A i \in 1..Len(rows) : Len(rows[i].cells) >= 2 /\ IsNum(rows[i].cells[2])

\* C23 for the "sections" revision: the first record of a section of the
\* actual report carries the sum of its rows' first value cells.
C23_SectionsSkipLabel ==
    (pc = "done" /\ rev = "sections") =>
        \A k \in 1..Len(reply.result) :
            LET section == FindSectionTitled(ReportRows(actualReport), reply.result[k][1])
            IN  (section # Null /\ NumericFirstValues(section.rows)) =>
                    reply.result[k][2][1].actual = Num(ClaimedSum(section.rows, 2))

\* C23 for the "decumulate" revision: some record of the reply carries the
\* sum of the first value cells of the section's Row rows.
C23_DecumulateSkipsLabel ==
    (pc = "done" /\ rev = "decumulate") =>
        LET rows == getSectionRows(actualReport, args.metric.s)
        IN  NumericFirstValues(rows) =>
                \E i \in 1..Len(reply.records) :
                    reply.records[i].actual = Num(ClaimedSum(rows, 2))

\* C23: the first cell of a labelled data row is the row's label and never
\* a period value: it adds to no period's sum, and the value reported for
\* the first period is the sum of the rows' first value cells, a number
\* whenever those cells are numbers.
C23_LabelNotAValue == C23_SectionsSkipLabel /\ C23_DecumulateSkipsLabel

(***************************************************************************)
(* The number of periods.  A date is a calendar day given as YYYY-MM-DD;   *)
(* new Date(text) is midnight UTC of that day, and getFullYear and         *)
(* getMonth read it in the time zone of the process: the same day at UTC   *)
(* and east of it, the day before west of it.  Of a day only its year, its *)
(* month (0..11) and whether it is the first of the month matter.          *)
(***************************************************************************)
TimeZones == {"utc", "west"}

\* 12 * getFullYear() + getMonth() of new Date(date), read in zone tz.
LocalMonth(date, tz) ==
    12 * date.year + date.month - (IF tz = "west" /\ date.first THEN 1 ELSE 0)

getFullYear(date, tz) == LocalMonth(date, tz) \div 12
getMonth(date, tz) == LocalMonth(date, tz) % 12

\* calculatePeriods(start, end), and the MONTH branch of the tools.
calculatePeriods(start, end, tz) ==
    (getFullYear(end, tz) - getFullYear(start, tz)) * 12
        + (getMonth(end, tz) - getMonth(start, tz)) + 1

\* The QUARTER branch: Math.floor(getMonth() / 3) is the quarter.
quarterPeriods(start, end, tz) ==
    (getFullYear(end, tz) - getFullYear(start, tz)) * 4
        + ((getMonth(end, tz) \div 3) - (getMonth(start, tz) \div 3)) + 1

\* The YEAR branch.
yearPeriods(start, end, tz) == getFullYear(end, tz) - getFullYear(start, tz) + 1

\* The periods the periodic tool passes to both fetches, by revision.
toolPeriods(revision, a, tz) ==
    LET timeframe == IF a.timeframe = Absent THEN "MONTH" ELSE a.timeframe
    IN  IF revision \in {"summary", "rowlabel"} \/ Truthy(a.periods) THEN a.periods
        ELSE IF revision = "raw"
        THEN IF budgetTimeframe(revision, a) = "MONTH"
             THEN Num(calculatePeriods(a.fromDate, a.toDate, tz))
             ELSE Num(yearPeriods(a.fromDate, a.toDate, tz))
        ELSE IF timeframe = "MONTH" THEN Num(calculatePeriods(a.fromDate, a.toDate, tz))
        ELSE IF timeframe = "QUARTER" THEN Num(quarterPeriods(a.fromDate, a.toDate, tz))
        ELSE Num(yearPeriods(a.fromDate, a.toDate, tz))

\* calculatedPeriods of the list-budget-summary and list-profit-and-loss
\* tools: months for MONTH, years for any other timeframe.
calculatedPeriods(a, tz) ==
    LET tf == IF a.timeframe = Absent THEN "MONTH" ELSE a.timeframe
    IN  IF Truthy(a.periods) \/ a.toDate = Null THEN a.periods
        ELSE IF tf = "MONTH" THEN Num(calculatePeriods(a.fromDate, a.toDate, tz))
        ELSE Num(yearPeriods(a.fromDate, a.toDate, tz))

(***************************************************************************)
(* Specification of the period arguments: a tool is invoked with dates, an *)
(* optional periods and an optional timeframe, in a process of some time   *)
(* zone, and the periods and timeframe of each fetch it issues are         *)
(* recorded in output.                                                     *)
(***************************************************************************)
ListTools == {"list-budget-summary", "list-profit-and-loss"}

InitPeriods ==
    /\ pc = "start"
    /\ rev \in Revisions \cup ListTools
    /\ LET days == [year : {2023, 2024}, month : {0, 3, 11}, first : BOOLEAN]
       IN  input \in [tz : TimeZones, fromDate : days, toDate : days \cup {Null},
                      periods : {Null, Num(0), Num(2)},
                      timeframe : Timeframes \cup {Absent}]
    /\ input.toDate = Null => rev \in ListTools
    /\ (rev = "list-budget-summary") => input.timeframe # "QUARTER"
    /\ output = <<>>
    /\ args = None /\ actualResp = None /\ budgetResp = None /\ reply = None

\* The periodic tool: await listXeroProfitAndLoss(fromDate, toDate, periods,
\* timeframe, ...), with a return when the fetch failed.
IssueActualPeriods ==
    /\ pc = "start" /\ rev \in Revisions
    /\ output' = Append(output, [handler |-> "listXeroProfitAndLoss",
                                 periods |-> toolPeriods(rev, input, input.tz),
                                 timeframe |-> toolTimeframe(rev, input)])
    /\ \E isError \in BOOLEAN : pc' = IF isError THEN "failed" ELSE "fetchBudget"
    /\ UNCHANGED <<rev, input, args, actualResp, budgetResp, reply>>

\* The periodic tool: await listXeroBudgetSummary(fromDate, periods, ...).
IssueBudgetPeriods ==
    /\ pc = "fetchBudget"
    /\ output' = Append(output, [handler |-> "listXeroBudgetSummary",
                                 periods |-> toolPeriods(rev, input, input.tz),
                                 timeframe |-> budgetTimeframe(rev, input)])
    /\ \E isError \in BOOLEAN : pc' = IF isError THEN "failed" ELSE "done"
    /\ UNCHANGED <<rev, input, args, actualResp, budgetResp, reply>>

\* list-budget-summary: listXeroBudgetSummary(date, calculatedPeriods, tf)
ListBudgetSummaryTool ==
    /\ pc = "start" /\ rev = "list-budget-summary"
    /\ output' = <<[handler |-> "listXeroBudgetSummary",
                    periods |-> calculatedPeriods(input, input.tz),
                    timeframe |-> IF input.timeframe = Absent THEN "MONTH"
                                  ELSE input.timeframe]>>
    /\ \E isError \in BOOLEAN : pc' = IF isError THEN "failed" ELSE "done"
    /\ UNCHANGED <<rev, input, args, actualResp, budgetResp, reply>>

\* list-profit-and-loss: listXeroProfitAndLoss(fromDate, undefined,
\* calculatedPeriods, tf, standardLayout, paymentsOnly)
ListProfitAndLossTool ==
    /\ pc = "start" /\ rev = "list-profit-and-loss"
    /\ output' = <<[handler |-> "listXeroProfitAndLoss",
                    periods |-> calculatedPeriods(input, input.tz),
                    timeframe |-> IF input.timeframe = Absent THEN "MONTH"
                                  ELSE input.timeframe]>>
    /\ \E isError \in BOOLEAN : pc' = IF isError THEN "failed" ELSE "done"
    /\ UNCHANGED <<rev, input, args, actualResp, budgetResp, reply>>

NextPeriods ==
    \/ IssueActualPeriods
    \/ IssueBudgetPeriods
    \/ ListBudgetSummaryTool
    \/ ListProfitAndLossTool

SpecPeriods == InitPeriods /\ [][NextPeriods]_vars

\* C24: the actual fetch and the budget fetch of one invocation of the
\* periodic tool are issued with the same number of periods and the same
\* granularity, for MONTH, QUARTER and YEAR requests, with and without a
\* periods argument.
C24_SamePeriodsAndGranularity ==
    (rev \in Revisions /\ Len(output) = 2) =>
        /\ output[1].periods = output[2].periods
        /\ output[1].timeframe = output[2].timeframe

\* The half of C24 every revision keeps: both fetches are issued with the
\* same number of periods.
C24_SamePeriodCount ==
    (rev \in Revisions /\ Len(output) = 2) => output[1].periods = output[2].periods

\* The inclusive number of units of the timeframe from one calendar day to
\* another, by the year and the month the two days are written with.
ClaimedPeriods(timeframe, from, to) ==
    IF timeframe = "QUARTER"
    THEN 4 * (to.year - from.year) + ((to.month \div 3) - (from.month \div 3)) + 1
    ELSE IF timeframe = "YEAR" THEN to.year - from.year + 1
    ELSE 12 * (to.year - from.year) + (to.month - from.month) + 1

\* toDate is not before fromDate, as far as the model tells days apart.
NotBefore(to, from) == 12 * to.year + to.month >= 12 * from.year + from.month

\* C25: with no periods supplied, the period count of every fetch is the
\* inclusive number of timeframe units from fromDate to toDate (MONTH: 12 *
\* year difference + month difference + 1; QUARTER: 4 * year difference +
\* quarter difference + 1; YEAR: year difference + 1), at least 1 when
\* toDate is not before fromDate; a supplied non-zero periods is passed on
\* unchanged.
C25_CalendarUnits ==
    \A i \in 1..Len(output) :
        IF Truthy(input.periods) THEN output[i].periods = input.periods
        ELSE input.toDate # Null =>
            /\ output[i].periods =
                  Num(ClaimedPeriods(IF input.timeframe = Absent THEN "MONTH"
                                     ELSE input.timeframe,
                                     input.fromDate, input.toDate))
            /\ NotBefore(input.toDate, input.fromDate) => output[i].periods.n >= 1

\* The halves of C25 the code keeps: a supplied non-zero periods is passed
\* on unchanged by every tool; and in a process at UTC the "decumulate" and
\* "sections" revisions count the units as claimed.
C25_SuppliedUnchanged ==
    \A i \in 1..Len(output) : Truthy(input.periods) => output[i].periods = input.periods
C25_CountedAtUtc ==
    (input.tz = "utc" /\ rev \in {"decumulate", "sections"}) => C25_CalendarUnits

(***************************************************************************)
(* updateXeroInvoice.  The backend holds one invoice (or none) under the   *)
(* id; output records the calls made to the backend and the status the     *)
(* invoice has there.                                                      *)
(***************************************************************************)
\* Mutant: an invoice of any status but DRAFT and SUBMITTED is voided.
deleteStatus_VoidsTheRest(invoiceStatus) ==
    IF invoiceStatus \in {"DRAFT", "SUBMITTED"} THEN "DELETED" ELSE "VOIDED"

\* action === 'delete': the status requested for an invoice of status
\* invoiceStatus, "none" when the deletion is refused.
deleteStatus(invoiceStatus) ==
    IF invoiceStatus \in {"DRAFT", "SUBMITTED"} THEN "DELETED"
    ELSE IF invoiceStatus = "AUTHORISED" THEN "VOIDED"
    ELSE "none"

\* Mutant: authorize always requests AUTHORISED.
authorizeStatus_Always(invoiceStatus, status) == "AUTHORISED"

\* action === 'authorize': AUTHORISED unless the invoice is AUTHORISED
\* already, and then the default update with the caller's status.
authorizeStatus(invoiceStatus, status) ==
    IF invoiceStatus # "AUTHORISED" THEN "AUTHORISED" ELSE status

\* The invoice updateInvoice sends: the status key is left out for a status
\* that is not given.
updateInvoice(a, status) ==
    IF status = Absent THEN [reference |-> a.reference]
    ELSE [reference |-> a.reference, status |-> status]

\* The message of the Error thrown when the update returns no invoice.
updateFailed(action, invoiceStatus) ==
    [text |-> IF action = "delete" /\ invoiceStatus \in {"DRAFT", "SUBMITTED"}
              THEN "Invoice delete failed."
              ELSE IF action = "delete" THEN "Invoice void failed."
              ELSE IF action = "authorize" /\ invoiceStatus # "AUTHORISED"
              THEN "Invoice authorize failed."
              ELSE "Invoice update failed."]

InitUpdate ==
    /\ pc = "start"
    /\ args \in [action : {"delete", "void", "authorize", Absent},
                 status : {Absent, "DRAFT", "AUTHORISED"},
                 reference : {Absent, "r"}]
    /\ input \in [status : {"DRAFT", "SUBMITTED", "AUTHORISED", "PAID", "VOIDED",
                            "DELETED", Absent}]
    /\ output = [calls |-> <<>>, status |-> input.status, invoiceStatus |-> "unread"]
    /\ reply = None
    /\ rev = None /\ actualResp = None /\ budgetResp = None

\* const existingInvoice = await getInvoice(invoiceId); a throw is caught.
\* The status read is undefined when the backend returns no invoice.
ReadInvoice ==
    /\ pc = "start"
    /\ \E thrown \in {Null} \cup ThrownErrors :
        IF thrown = Null
        THEN /\ output' = [output EXCEPT !.calls = Append(@, [call |-> "getInvoice"]),
                                         !.invoiceStatus = output.status]
             /\ reply' = reply
             /\ pc' = "read"
        ELSE /\ output' = [output EXCEPT !.calls = Append(@, [call |-> "getInvoice"])]
             /\ reply' = [isError |-> TRUE, error |-> formatError(thrown)]
             /\ pc' = "failed"
    /\ UNCHANGED <<rev, input, args, actualResp, budgetResp>>

\* The rest of updateXeroInvoice: the refusal of a deletion, or the one
\* call of updateInvoice and its outcome (an invoice, none, or a throw).
IssueUpdate ==
    /\ pc = "read"
    /\ LET invoiceStatus == output.invoiceStatus
           status == IF args.action = "delete" THEN deleteStatus(invoiceStatus)
                     ELSE IF args.action = "authorize"
                     THEN authorizeStatus(invoiceStatus, args.status)
                     ELSE args.status
           call == [call |-> "updateInvoice", invoice |-> updateInvoice(args, status)]
           updated == IF status = Absent THEN output.status ELSE status
       IN  IF status = "none"
           THEN /\ reply' = [isError |-> TRUE,
                             error |-> [text |-> "Invoice cannot be deleted. Current status: ",
                                        invoiceStatus |-> invoiceStatus]]
                /\ output' = output
                /\ pc' = "failed"
           ELSE \E outcome \in {[kind |-> "invoice"], [kind |-> "nothing"]} \cup ThrownErrors :
                IF outcome = [kind |-> "invoice"]
                THEN /\ output' = [output EXCEPT !.calls = Append(@, call),
                                                 !.status = updated]
                     /\ reply' = [isError |-> FALSE, result |-> [status |-> updated]]
                     /\ pc' = "done"
                ELSE /\ output' = [output EXCEPT !.calls = Append(@, call)]
                     /\ reply' = [isError |-> TRUE,
                                  error |-> formatError(
                                      IF outcome = [kind |-> "nothing"]
                                      THEN [message |-> updateFailed(args.action, invoiceStatus)]
                                      ELSE outcome)]
                     /\ pc' = "failed"
    /\ UNCHANGED <<rev, input, args, actualResp, budgetResp>>

NextUpdate == ReadInvoice \/ IssueUpdate

SpecUpdate == InitUpdate /\ [][NextUpdate]_vars

\* The update calls issued so far.
UpdateCalls == SelectSeq(output.calls, LAMBDA c : c.call = "updateInvoice")

\* updateXeroInvoice has returned after reading the current invoice.
ReturnedAfterRead == pc \in {"done", "failed"} /\ output.invoiceStatus # "unread"

\* C26: with action 'delete', updateXeroInvoice requests DELETED for a DRAFT
\* or SUBMITTED invoice and VOIDED for an AUTHORISED one; for any other
\* current status, an invoice that was not found included, it issues no
\* update call and returns an error that names the current status, and the
\* invoice stays as it was.
C26_DeleteByStatus ==
    (ReturnedAfterRead /\ args.action = "delete") =>
        IF input.status \in {"DRAFT", "SUBMITTED"}
        THEN Len(UpdateCalls) = 1 /\ UpdateCalls[1].invoice.status = "DELETED"
        ELSE IF input.status = "AUTHORISED"
        THEN Len(UpdateCalls) = 1 /\ UpdateCalls[1].invoice.status = "VOIDED"
        ELSE /\ UpdateCalls = <<>>
             /\ reply.isError
             /\ "invoiceStatus" \in DOMAIN reply.error
             /\ reply.error.invoiceStatus = input.status
             /\ output.status = input.status

\* The deletion of a PAID invoice, refused after the read alone.
C26_Witness ==
    /\ pc = "failed" /\ args.action = "delete"
    /\ input.status = "PAID"
    /\ output.calls = <<[call |-> "getInvoice"]>>
    /\ output.invoiceStatus = "PAID"
    /\ reply.error.invoiceStatus = "PAID"
    /\ output.status = "PAID"

PageSize == 100
MaxContacts == 250

\* What the backend returns for a page of a list of total items.
PageOf(total, page) ==
    [i \in 1..(IF total >= page * PageSize THEN PageSize
               ELSE IF total > (page - 1) * PageSize THEN total - (page - 1) * PageSize
               ELSE 0) |-> (page - 1) * PageSize + i]

\* Mutant: paging goes on until a page is empty.
hasMorePages_UntilEmpty(contacts) == Len(contacts) # 0

\* hasMorePages after a page: false for an empty page and for a page of
\* fewer than 100 contacts.
hasMorePages(contacts) == Len(contacts) # 0 /\ ~(Len(contacts) < PageSize)

InitContacts ==
    /\ pc = "paging"
    /\ input \in [total : 0..MaxContacts]
    /\ output = [calls |-> <<>>, allContacts |-> <<>>, page |-> 1]
    /\ reply = None
    /\ rev = None /\ args = None /\ actualResp = None /\ budgetResp = None

\* One turn of the while loop: await getContacts(page, where), a throw
\* being caught by the handler; after the last page the handler returns.
FetchContactsPage ==
    /\ pc = "paging"
    /\ \E thrown \in {Null} \cup ThrownErrors :
        IF thrown # Null
        THEN /\ output' = [output EXCEPT !.calls = Append(@, output.page)]
             /\ reply' = Response(Null, TRUE, formatError(thrown))
             /\ pc' = "failed"
        ELSE LET contacts == PageOf(input.total, output.page)
                 allContacts == output.allContacts \o contacts
             IN  /\ output' = [calls |-> Append(output.calls, output.page),
                               allContacts |-> allContacts,
                               page |-> IF Len(contacts) = 0 THEN output.page
                                        ELSE output.page + 1]
                 /\ IF hasMorePages(contacts)
                    THEN reply' = reply /\ pc' = "paging"
                    ELSE /\ reply' = Response(Arr(allContacts), FALSE, Null)
                         /\ pc' = "done"
    /\ UNCHANGED <<rev, input, args, actualResp, budgetResp>>

NextContacts == FetchContactsPage

SpecContacts == InitContacts /\ [][NextContacts]_vars

\* Every await of the loop resolves, so the loop takes its next turn.
FairSpecContacts == SpecContacts /\ WF_vars(NextContacts)

\* The pages are requested in order 1, 2, 3, ..., every page before the last
\* one requested was full; a finished listing stopped at a page that is
\* empty or short and returns every contact once, in page order; a failed
\* one returns an error and no list.
PagingInOrder ==
    /\ \A i \in 1..Len(output.calls) : output.calls[i] = i
    /\ \A i \in 1..(Len(output.calls) - 1) : Len(PageOf(input.total, i)) = PageSize
    /\ pc = "done" =>
          /\ Len(PageOf(input.total, Len(output.calls))) < PageSize
          /\ reply = Response(Arr([i \in 1..input.total |-> i]), FALSE, Null)
    /\ pc = "failed" => reply.isError /\ reply.result = Null

\* C28: listContactsByEmail requests the pages 1, 2, 3, ... in order and
\* stops at the first page that is empty or has fewer than 100 contacts; it
\* terminates, and its result is the concatenation in page order of every
\* page up to the stopping page, no contact skipped or given twice; a
\* failure on any page yields an error response with no partial list.
C28_PagesToTheEnd == [](PagingInOrder) /\ <>(pc \in {"done", "failed"})

\* 200 matching contacts: two full pages and an empty third page.
C28_Witness ==
    /\ pc = "done" /\ input.total = 2 * PageSize
    /\ output.calls = <<1, 2, 3>>
    /\ Len(reply.result.items) = 2 * PageSize

(***************************************************************************)
(* The aged receivables and aged payables reports.  The backend holds the  *)
(* invoices 1..total that match the filter and serves them in pages of     *)
(* PageSize; dates are numbers of days, 0 for an invoice without due date. *)
(* new Date("YYYY-MM-DD") is the midnight that starts the day, new Date()  *)
(* the present instant: instants are counted in half days.                 *)
(***************************************************************************)
MaxInvoices == 101

\* new Date(date) for a date without a time of day.
Midnight(day) == 2 * day

\* now.toISOString().split("T")[0]
IsoDate(instant) == instant \div 2

\* The UTF-16 order of the letters: capitals before small letters.
CodeUnit(c) ==
    IF \E i \in DOMAIN UpperLetters : UpperLetters[i] = c
    THEN CHOOSE i \in DOMAIN UpperLetters : UpperLetters[i] = c
    ELSE Len(UpperLetters) + (CHOOSE i \in DOMAIN LowerLetters : LowerLetters[i] = c)

\* s < t on strings.
RECURSIVE StringLess(_, _)
StringLess(s, t) ==
    IF t = <<>> THEN FALSE
    ELSE IF s = <<>> THEN TRUE
    ELSE IF s[1] # t[1] THEN CodeUnit(s[1]) < CodeUnit(t[1])
    ELSE StringLess(Tail(s), Tail(t))

\* (inv.contact?.name || "").toLowerCase()
sortName(inv) == IF Truthy(inv.name) THEN toLowerCase(inv.name.s) ELSE <<>>

\* overdueInvoices.sort(...): a stable sort by the lower-cased contact name.
RECURSIVE sortByName(_)
sortByName(invoices) ==
    IF invoices = <<>> THEN <<>>
    ELSE LET rest == sortByName(SubSeq(invoices, 1, Len(invoices) - 1))
             inv == invoices[Len(invoices)]
             k == Cardinality({i \in 1..Len(rest) :
                      ~StringLess(sortName(inv), sortName(rest[i]))})
         IN  SubSeq(rest, 1, k) \o <<inv>> \o SubSeq(rest, k + 1, Len(rest))

\* The rows of the report: the invoices with a due date before now, sorted
\* by contact name, one flat row each.
agedRows(allInvoices, now) ==
    LET overdueInvoices == SelectSeq(allInvoices,
                               LAMBDA inv : inv.dueDate # 0 /\ Midnight(inv.dueDate) < now)
        sorted == sortByName(overdueInvoices)
    IN  [i \in 1..Len(sorted) |->
            [contactName |-> IF Truthy(sorted[i].name) THEN sorted[i].name
                             ELSE Str(<<"U", "n", "k", "n", "o", "w", "n">>),
             invoice |-> sorted[i].invoiceID,
             overdueAmount |-> sorted[i].amountDue,
             dueDate |-> sorted[i].dueDate]]

\* Invoice i of the backend: due dates and contact names vary with i.
AgedNames == <<Null, Str(<<"b">>), Str(<<"A">>), Str(<<"a">>), Str(<<"B", "a">>)>>
InvoiceAt(i, seed) ==
    [invoiceID |-> i, amountDue |-> i, dueDate |-> i % 8,
     name |-> AgedNames[((i * seed) % Len(AgedNames)) + 1]]

InitAged ==
    /\ pc = "paging"
    /\ rev \in {"listXeroAgedReceivables", "listXeroAgedPayables"}
    /\ args \in [reportDate : {Null, Num(2), Num(3)}]
    /\ input \in [total : 0..MaxInvoices, seed : {1, 2},
                  today : {2}, clock : {0, 1}]
    /\ output = [calls |-> <<>>, allInvoices |-> <<>>, page |-> 1]
    /\ reply = None
    /\ actualResp = None /\ budgetResp = None

\* One turn of the do-while loop: await getInvoices(..., page); after a
\* page that does not hold exactly 100 invoices the report is built and
\* returned.  A throw is caught by the handler.
FetchInvoicesPage ==
    /\ pc = "paging"
    /\ \E thrown \in {Null} \cup ThrownErrors :
        IF thrown # Null
        THEN /\ output' = [output EXCEPT !.calls = Append(@, output.page)]
             /\ reply' = Response(Null, TRUE, formatError(thrown))
             /\ pc' = "failed"
        ELSE LET ids == PageOf(input.total, output.page)
                 invoices == [i \in 1..Len(ids) |-> InvoiceAt(ids[i], input.seed)]
                 allInvoices == output.allInvoices \o invoices
                 now == IF args.reportDate = Null
                        THEN Midnight(input.today) + input.clock
                        ELSE Midnight(args.reportDate.n)
             IN  /\ output' = [calls |-> Append(output.calls, output.page),
                               allInvoices |-> allInvoices,
                               page |-> output.page + 1]
                 /\ IF Len(invoices) = PageSize
                    THEN reply' = reply /\ pc' = "paging"
                    ELSE /\ reply' = Response(
                                [reportName |-> IF rev = "listXeroAgedReceivables"
                                                THEN "Aged Debtors - Overdue Invoices"
                                                ELSE "Aged Creditors - Overdue Bills",
                                 reportDate |-> IsoDate(now),
                                 rows |-> agedRows(allInvoices, now)], FALSE, Null)
                         /\ pc' = "done"
    /\ UNCHANGED <<rev, input, args, actualResp, budgetResp>>

NextAged == FetchInvoicesPage

SpecAged == InitAged /\ [][NextAged]_vars

\* The invoices of the backend that are overdue at the date of the report.
OverdueIds ==
    {i \in 1..input.total :
        /\ InvoiceAt(i, input.seed).dueDate # 0
        /\ InvoiceAt(i, input.seed).dueDate < reply.result.reportDate}

\* The pages are asked for in order, up to the first that does not hold
\* exactly 100 invoices.
AgedPagingInOrder ==
    /\ \A i \in 1..Len(output.calls) : output.calls[i] = i
    /\ \A i \in 1..(Len(output.calls) - 1) : Len(PageOf(input.total, i)) = PageSize
    /\ pc = "done" => Len(PageOf(input.total, Len(output.calls))) # PageSize

\* The rows are the invoices ids, one row each, ordered by lower-cased
\* contact name.
RowsAre(ids) ==
    LET rows == reply.result.rows
    IN  /\ {rows[i].invoice : i \in 1..Len(rows)} = ids
        /\ Len(rows) = Cardinality(ids)
        /\ \A i \in 1..(Len(rows) - 1) :
              ~StringLess(sortName(InvoiceAt(rows[i + 1].invoice, input.seed)),
                          sortName(InvoiceAt(rows[i].invoice, input.seed)))

\* C29: the aged receivables and aged payables reports hold exactly the
\* fetched invoices with a due date strictly before the report date, one
\* row each, ordered by lower-cased contact name; the invoices are fetched
\* page by page, up to the first page that does not hold exactly 100.
C29_OverdueRowsInOrder ==
    /\ AgedPagingInOrder
    /\ pc = "done" => RowsAre(OverdueIds)

\* C29, with a report date given: the rows are the invoices due before
\* that date, in order, and the paging is as stated.
C29_GivenReportDate ==
    /\ AgedPagingInOrder
    /\ (pc = "done" /\ args.reportDate # Null) => RowsAre(OverdueIds)

\* C29, without a report date: the rows are the invoices due before the
\* present instant, those due today included once midnight has passed.
C29_DueTodayIncluded ==
    (pc = "done" /\ args.reportDate = Null) =>
        RowsAre({i \in 1..input.total :
                    /\ InvoiceAt(i, input.seed).dueDate # 0
                    /\ InvoiceAt(i, input.seed).dueDate
                          < input.today + input.clock})

(***************************************************************************)
(* MCPXeroClient.getShortCode.  The calls of several callers interleave at *)
(* the awaits; the organisation of the tenant is the same at every call,   *)
(* while any authentication or request may fail.                           *)
(***************************************************************************)
Callers == 1..3
MaxCalls == 4

\* The organisations the backend may hold for the tenant: none, one
\* without a short code, one with the short code "!a".
Organisations == {Null, [shortCode |-> Null], [shortCode |-> Str(<<"!", "a">>)]}

\* Mutant: the cached short code is never used.
hasShortCode_Never(shortCode) == FALSE

\* The negation of `!this.shortCode`.
hasShortCode(shortCode) == Truthy(shortCode)

\* organisation.shortCode ?? ""
shortCodeOf(organisation) ==
    IF organisation.shortCode = Null THEN Str(<<>>) ELSE organisation.shortCode

\* throw new Error(`Failed to get Organisation short code: ${err.message}`)
shortCodeError(err) ==
    [message |-> Str(<<"Failed to get Organisation short code: ">> \o err.message.s)]

InitShortCode ==
    /\ pc = [c \in Callers |-> "idle"]
    /\ input \in [organisation : Organisations]
    /\ output = [shortCode |-> Str(<<>>), calls |-> <<>>,
                 authenticated |-> 0, requested |-> 0]
    /\ reply = [c \in Callers |-> None]
    /\ rev = None /\ args = None /\ actualResp = None /\ budgetResp = None

\* A caller calls getShortCode(): with a cached short code the call returns
\* it at once; otherwise getOrganisation() starts and calls authenticate().
CallGetShortCode(c) ==
    /\ pc[c] \in {"idle", "returned", "failed"}
    /\ Len(output.calls) < MaxCalls
    /\ IF hasShortCode(output.shortCode)
       THEN /\ output' = [output EXCEPT !.calls = Append(@, c)]
            /\ reply' = [reply EXCEPT ![c] = output.shortCode]
            /\ pc' = [pc EXCEPT ![c] = "returned"]
       ELSE /\ output' = [output EXCEPT !.calls = Append(@, c),
                                        !.authenticated = @ + 1]
            /\ reply' = [reply EXCEPT ![c] = None]
            /\ pc' = [pc EXCEPT ![c] = "authenticating"]
    /\ UNCHANGED <<rev, input, args, actualResp, budgetResp>>

\* await this.authenticate() settles: on success the organisations are
\* requested, a throw is rethrown by getShortCode.
AuthenticateSettles(c) ==
    /\ pc[c] = "authenticating"
    /\ \E thrown \in {Null} \cup ThrownErrors :
        IF thrown # Null
        THEN /\ reply' = [reply EXCEPT ![c] = shortCodeError(thrown)]
             /\ pc' = [pc EXCEPT ![c] = "failed"]
             /\ output' = output
        ELSE /\ output' = [output EXCEPT !.requested = @ + 1]
             /\ pc' = [pc EXCEPT ![c] = "requesting"]
             /\ reply' = reply
    /\ UNCHANGED <<rev, input, args, actualResp, budgetResp>>

\* await this.accountingApi.getOrganisations(...) settles: the short code
\* of the first organisation is cached and returned; a throw or a body
\* without organisation is rethrown by getShortCode.
GetOrganisationsSettles(c) ==
    /\ pc[c] = "requesting"
    /\ \E thrown \in {Null} \cup ThrownErrors :
        LET err == IF thrown # Null THEN thrown
                   ELSE IF input.organisation = Null
                   THEN [message |-> Str(<<"Failed to retrieve organisation">>)]
                   ELSE Null
        IN  IF err # Null
            THEN /\ reply' = [reply EXCEPT ![c] = shortCodeError(err)]
                 /\ pc' = [pc EXCEPT ![c] = "failed"]
                 /\ output' = output
            ELSE /\ output' = [output EXCEPT !.shortCode = shortCodeOf(input.organisation)]
                 /\ reply' = [reply EXCEPT ![c] = shortCodeOf(input.organisation)]
                 /\ pc' = [pc EXCEPT ![c] = "returned"]
    /\ UNCHANGED <<rev, input, args, actualResp, budgetResp>>

NextShortCode ==
    \E c \in Callers :
        \/ CallGetShortCode(c)
        \/ AuthenticateSettles(c)
        \/ GetOrganisationsSettles(c)

SpecShortCode == InitShortCode /\ [][NextShortCode]_vars

\* Caller c starts a call in this step.
Calls(c) == output'.calls = Append(output.calls, c)

\* The call of caller c fails in this step.
Fails(c) == pc[c] \notin {"failed"} /\ pc'[c] = "failed"

\* C30: once a getShortCode call has completed with a non-empty short code,
\* that value stays cached and every later call returns it without
\* authenticating or contacting the backend; a failed call leaves the
\* cached short code unchanged, and a call that finds the cache empty
\* tries again.
C30_CachedShortCode ==
    [][\A c \in Callers :
          /\ Truthy(output.shortCode) => output'.shortCode = output.shortCode
          /\ (Calls(c) /\ Truthy(output.shortCode)) =>
                /\ pc'[c] = "returned" /\ reply'[c] = output.shortCode
                /\ output'.authenticated = output.authenticated
                /\ output'.requested = output.requested
          /\ Fails(c) => output'.shortCode = output.shortCode
          /\ (Calls(c) /\ ~Truthy(output.shortCode)) =>
                /\ pc'[c] = "authenticating"
                /\ output'.authenticated = output.authenticated + 1]_vars

\* Caller 3 has failed, caller 1 has then fetched the short code, and
\* caller 2 has got it from the cache: three calls, two authentications,
\* one request.
C30_Witness ==
    /\ pc = [c \in Callers |-> IF c = 3 THEN "failed" ELSE "returned"]
    /\ reply[1] = Str(<<"!", "a">>) /\ reply[2] = Str(<<"!", "a">>)
    /\ reply[3] = shortCodeError([message |-> Str(<<"e">>)])
    /\ output = [shortCode |-> Str(<<"!", "a">>), calls |-> <<3, 1, 2>>,
                 authenticated |-> 2, requested |-> 1]

====
